---- MODULE Spec2Model ----
(***************************************************************************)
(* Model of the resume-analyzer backend (darshankparmar/resume-analyzer):  *)
(* the batch handler analyze_resumes_batch, the single-item handler        *)
(* analyze_resume, the score parser parse_score_from_markdown and the JD   *)
(* scraper scrape_job_description with its markup stripping.               *)
(*                                                                         *)
(* Python str and bytes values are sequences of one-character strings.     *)
(* Optional[str] None is the one-element sequence None (no text of the     *)
(* model has that element); Optional[int] is <<>> for None and <<n>> for n.*)
(***************************************************************************)
EXTENDS Integers, Sequences, FiniteSets, TLC

VARIABLES
    sc_pc, sc_md, sc_score, sc_again,   \* parse_score_from_markdown: position, argument, results of two calls
    sj_pc, sj_url, sj_env, sj_val, sj_result, sj_calls,
                                        \* scrape_job_description: position, argument, what the network
                                        \* answers, value picked before normalisation,
                                        \* return value, network calls made so far

    pc,                 \* handler position: "start", "prescrape", "loop", "read", "extract", "analyze",
                        \* "done", "crashed" (an exception left the handler), "waiting" (the
                        \* handler is inside a call that has no timeout and is never
                        \* answered: it takes no further step), "idle"
    req,                \* the request: job_title, job_description, job_link, hr_focus,
                        \* hr_questions_raw, resumes
    dep,                \* the deployment: ocr_installed, agent_import, and stalls: the upstream
                        \* service that takes a call and never answers it, "none", "scrape"
                        \* (FIRECRAWL_API_KEY is set and the client imports) or "generate"
    batch_scraped_jd,   \* the batch handler's pre-scraped JD
    idx,                \* the batch loop's position in resumes
    results,            \* the batch handler's results list
    contents,           \* the single-item handler's contents
    extracted_text,     \* the single-item handler's extracted_text
    response,           \* what the handler returned
    calls,              \* the calls made so far to the scraper, the uploads, the extractors, the agent
    agent_inputs        \* the AgentInputs of the latest call of the agent, in batch mode followed
                        \* by the prompt composed from them; <<>> before the first call

handlerVars == <<pc, req, dep, batch_scraped_jd, idx, results, contents, extracted_text,
                 response, calls, agent_inputs>>
scoreVars == <<sc_pc, sc_md, sc_score, sc_again>>
scrapeVars == <<sj_pc, sj_url, sj_env, sj_val, sj_result, sj_calls>>
vars == <<scoreVars, scrapeVars, handlerVars>>

-----------------------------------------------------------------------------
(* Text primitives                                                         *)

None == <<"None">>

\* an exception raised by a call, where the call returns a text otherwise
Raised == <<"Raised">>

UpperChars == <<"A","B","C","D","E","F","G","H","I","J","K","L","M",
                "N","O","P","Q","R","S","T","U","V","W","X","Y","Z">>
LowerChars == <<"a","b","c","d","e","f","g","h","i","j","k","l","m",
                "n","o","p","q","r","s","t","u","v","w","x","y","z">>
DigitChars == <<"0","1","2","3","4","5","6","7","8","9">>

\* re.IGNORECASE compares characters by their lower-case form
UpperToLower ==
    [c \in {UpperChars[i] : i \in 1..26} |-> LowerChars[CHOOSE i \in 1..26 : UpperChars[i] = c]]

Lower(c) == IF c \in DOMAIN UpperToLower THEN UpperToLower[c] ELSE c

\* \s of the regular expressions, and the characters str.split()/str.strip() drop
IsSpace(c) == c \in {" ", "\t", "\n", "\r"}

\* \d
IsDigit(c) == c \in {"0","1","2","3","4","5","6","7","8","9"}

DigitVal(c) == (CHOOSE i \in 1..10 : DigitChars[i] = c) - 1

SetMin(S) == CHOOSE x \in S : \A y \in S : x <= y
SetMax(S) == CHOOSE x \in S : \A y \in S : x >= y

\* the indices 1..n, in order
Indices(n) == [i \in 1..n |-> i]

\* str.strip()
Strip(s) ==
    IF \A i \in 1..Len(s) : IsSpace(s[i]) THEN <<>>
    ELSE LET first == CHOOSE i \in 1..Len(s) :
                        ~IsSpace(s[i]) /\ \A j \in 1..(i - 1) : IsSpace(s[j])
             last == CHOOSE i \in 1..Len(s) :
                        ~IsSpace(s[i]) /\ \A j \in (i + 1)..Len(s) : IsSpace(s[j])
         IN SubSeq(s, first, last)

\* " ".join(md.split()): whitespace runs become one space, none at the ends.
\* Kept are the characters of the words and the first blank after a word that has
\* a word after it.
SplitJoin(s) ==
    LET lastWord == IF \A i \in 1..Len(s) : IsSpace(s[i]) THEN 0
                    ELSE CHOOSE i \in 1..Len(s) :
                            ~IsSpace(s[i]) /\ \A j \in (i + 1)..Len(s) : IsSpace(s[j])
        keep(i) == \/ ~IsSpace(s[i])
                   \/ i > 1 /\ i < lastWord /\ ~IsSpace(s[i - 1])
        kept == SelectSeq(Indices(Len(s)), keep)
    IN [k \in 1..Len(kept) |-> IF IsSpace(s[kept[k]]) THEN " " ELSE s[kept[k]]]

\* int() of a run of digits
RECURSIVE ToInt(_)
ToInt(ds) ==
    IF ds = <<>> THEN 0
    ELSE 10 * ToInt(SubSeq(ds, 1, Len(ds) - 1)) + DigitVal(ds[Len(ds)])

-----------------------------------------------------------------------------
(* Regular-expression steps. A position is an index into the text; 0 is    *)
(* "no match".                                                             *)

\* a literal word at position i, ignoring case: the position after it, or 0
MatchLit(s, i, w) ==
    IF i >= 1 /\ i + Len(w) - 1 <= Len(s)
       /\ \A k \in 1..Len(w) : Lower(s[i + k - 1]) = Lower(w[k])
    THEN i + Len(w) ELSE 0

\* \s* at position i (greedy; nothing that follows it in the patterns starts with a space)
SkipSpaces(s, i) ==
    LET stops == {j \in i..Len(s) : ~IsSpace(s[j])}
    IN IF stops = {} THEN Len(s) + 1 ELSE SetMin(stops)

\* \s+ at position i: the position after the run, or 0
SomeSpaces(s, i) ==
    IF i >= 1 /\ i <= Len(s) /\ IsSpace(s[i]) THEN SkipSpaces(s, i) ELSE 0

W_overall == <<"o","v","e","r","a","l","l">>
W_match == <<"m","a","t","c","h">>
W_score == <<"s","c","o","r","e">>

\* r"\s*(?:overall\s+)?match" at i, the part of the third pattern after the percent sign
Pattern3Tail(s, i) ==
    LET a == SkipSpaces(s, i)
        o == MatchLit(s, a, W_overall)
        b == IF o = 0 THEN 0 ELSE SomeSpaces(s, o)
    IN \/ b # 0 /\ MatchLit(s, b, W_match) # 0
       \/ MatchLit(s, a, W_match) # 0

\* (\d{1,3})% at position i, followed by the tail of the third pattern when tailed:
\* the captured digits, or <<>>. Greedy with backtracking: the longest of 3, 2, 1
\* digits for which the rest matches.
DigitsPercent(s, i, tailed) ==
    LET ks == {k \in 1..3 :
                 /\ i >= 1 /\ i + k <= Len(s)
                 /\ \A d \in 0..(k - 1) : IsDigit(s[i + d])
                 /\ s[i + k] = "%"
                 /\ (tailed => Pattern3Tail(s, i + k + 1))}
    IN IF ks = {} THEN <<>> ELSE SubSeq(s, i, i + SetMax(ks) - 1)

\* r"match\s+score\s*[:\-]\s*(\d{1,3})%" anchored at i
Pattern2At(s, i) ==
    LET a == MatchLit(s, i, W_match)
        b == IF a = 0 THEN 0 ELSE SomeSpaces(s, a)
        c == IF b = 0 THEN 0 ELSE MatchLit(s, b, W_score)
        d == IF c = 0 THEN 0 ELSE SkipSpaces(s, c)
    IN IF d = 0 \/ d > Len(s) THEN <<>>
       ELSE IF s[d] \notin {":", "-"} THEN <<>>
       ELSE DigitsPercent(s, SkipSpaces(s, d + 1), FALSE)

\* r"overall\s+match\s+score\s*[:\-]\s*(\d{1,3})%" anchored at i
Pattern1At(s, i) ==
    LET a == MatchLit(s, i, W_overall)
        b == IF a = 0 THEN 0 ELSE SomeSpaces(s, a)
    IN IF b = 0 THEN <<>> ELSE Pattern2At(s, b)

\* a variant of the third pattern that does not ask for the percent sign
Pattern3AtNoPercent(s, i) ==
    LET ks == {k \in 1..3 :
                 /\ i + k - 1 <= Len(s)
                 /\ \A d \in 0..(k - 1) : IsDigit(s[i + d])
                 /\ Pattern3Tail(s, i + k)}
    IN IF ks = {} THEN <<>> ELSE SubSeq(s, i, i + SetMax(ks) - 1)

\* r"(\d{1,3})%\s*(?:overall\s+)?match" anchored at i
Pattern3At(s, i) == DigitsPercent(s, i, TRUE)

\* the patterns list, by number
PatternAt(p, s, i) ==
    CASE p = 1 -> Pattern1At(s, i)
      [] p = 2 -> Pattern2At(s, i)
      [] p = 3 -> Pattern3At(s, i)

\* re.search(p, text, flags=re.IGNORECASE).group(1): the leftmost match, or <<>>
SearchPattern(p, s) ==
    LET hits == {i \in 1..Len(s) : PatternAt(p, s, i) # <<>>}
    IN IF hits = {} THEN <<>> ELSE PatternAt(p, s, SetMin(hits))

\* a variant of the patterns list in the opposite order
ReversedPatterns == <<3, 2, 1>>
\* the order of the patterns list
ScorePatterns == <<1, 2, 3>>

\* if m: val = int(m.group(1)); if 0 <= val <= 100: return val
InRangeValue(m) ==
    IF m # <<>> /\ ToInt(m) >= 0 /\ ToInt(m) <= 100 THEN <<ToInt(m)>> ELSE <<>>

\* for p in patterns: m = re.search(p, text, flags=re.IGNORECASE) ...; return None
RECURSIVE ScoreLoop(_, _)
ScoreLoop(text, k) ==
    IF k > Len(ScorePatterns) THEN <<>>
    ELSE LET val == InRangeValue(SearchPattern(ScorePatterns[k], text))
         IN IF val # <<>> THEN val ELSE ScoreLoop(text, k + 1)

parse_score_from_markdown(md) ==
    IF md = None \/ md = <<>> THEN <<>>
    ELSE ScoreLoop(SplitJoin(md), 1)

-----------------------------------------------------------------------------
(* Report texts given to parse_score_from_markdown: up to MaxSegs phrases, *)
(* each built round one of the numbers, separated by a blank.              *)

MaxSegs == 2

ScoreNumbers == { <<"0">>, <<"8","7">>, <<"1","0","0">>, <<"1","0","1">>,
                  <<"1","0","5","0">> }

\* "## Overall Match Score: n%"
PhraseOverall(n) ==
    <<"#","#"," ","O","v","e","r","a","l","l"," ","M","a","t","c","h"," ",
      "S","c","o","r","e",":"," ">> \o n \o <<"%">>
\* "match  score -\nn%"
PhraseMatchScore(n) ==
    <<"m","a","t","c","h"," "," ","s","c","o","r","e"," ","-","\n">> \o n \o <<"%">>
\* "n%\tOVERALL match"
PhrasePercentMatch(n) ==
    n \o <<"%","\t","O","V","E","R","A","L","L"," ","m","a","t","c","h">>
\* "around n%"
PhraseAround(n) == <<"a","r","o","u","n","d"," ">> \o n \o <<"%">>
\* "top n match": a number and no percent sign
PhraseNoPercent(n) == <<"t","o","p"," ">> \o n \o <<" ","m","a","t","c","h">>

ScorePhrases ==
    {<<"G","o","o","d"," ","f","i","t">>}
    \cup {PhraseOverall(n) : n \in ScoreNumbers}
    \cup {PhraseMatchScore(n) : n \in ScoreNumbers}
    \cup {PhrasePercentMatch(n) : n \in ScoreNumbers}
    \cup {PhraseAround(n) : n \in ScoreNumbers}
    \cup {PhraseNoPercent(n) : n \in ScoreNumbers}

RECURSIVE JoinPhrases(_)
JoinPhrases(ps) ==
    IF ps = <<>> THEN <<>>
    ELSE IF Len(ps) = 1 THEN ps[1]
    ELSE ps[1] \o <<" ">> \o JoinPhrases(SubSeq(ps, 2, Len(ps)))

ScoreTexts ==
    {None, <<>>, <<" ", "\n">>}
    \cup UNION {{JoinPhrases(ps) : ps \in [1..n -> ScorePhrases]} : n \in 1..MaxSegs}

-----------------------------------------------------------------------------
(* parse_score_from_markdown called on a report text, and called again on  *)
(* the same text.                                                          *)

ScoreIdle == sc_pc = "idle" /\ sc_md = None /\ sc_score = <<>> /\ sc_again = <<>>

ScoreStart ==
    /\ sc_pc = "call"
    /\ sc_md \in ScoreTexts
    /\ sc_score = <<>>
    /\ sc_again = <<>>

ParseScore ==
    /\ sc_pc = "call"
    /\ sc_score' = parse_score_from_markdown(sc_md)
    /\ sc_pc' = "parsed"
    /\ UNCHANGED <<sc_md, sc_again, scrapeVars, handlerVars>>

ParseScoreAgain ==
    /\ sc_pc = "parsed"
    /\ sc_again' = parse_score_from_markdown(sc_md)
    /\ sc_pc' = "done"
    /\ UNCHANGED <<sc_md, sc_score, scrapeVars, handlerVars>>

NextScore == ParseScore \/ ParseScoreAgain

-----------------------------------------------------------------------------
(* _strip_html_tags and _tidy_text                                         *)

\* "sub in s"
Contains(s, sub) == \E i \in 1..(Len(s) - Len(sub) + 1) : SubSeq(s, i, i + Len(sub) - 1) = sub

\* re.sub(open + r"[\s\S]*?" + close, " ", s, flags=re.IGNORECASE) from position i on:
\* the leftmost opening that has a closing after it, up to the nearest such closing
RECURSIVE RemoveBlocks(_, _, _, _)
RemoveBlocks(s, i, open, close) ==
    LET closes(st) == {k \in (st + Len(open))..Len(s) : MatchLit(s, k, close) # 0}
        starts == {st \in i..Len(s) : MatchLit(s, st, open) # 0 /\ closes(st) # {}}
    IN IF starts = {} THEN SubSeq(s, i, Len(s))
       ELSE LET st == SetMin(starts)
                k == SetMin(closes(st))
            IN SubSeq(s, i, st - 1) \o <<" ">> \o RemoveBlocks(s, k + Len(close), open, close)

\* re.sub(r"<[^>]+>", " ", s) from position i on: a "<", one or more characters
\* that are not ">", then ">"
RECURSIVE RemoveTags(_, _)
RemoveTags(s, i) ==
    LET firstGt(st) == LET gts == {j \in (st + 1)..Len(s) : s[j] = ">"}
                       IN IF gts = {} THEN 0 ELSE SetMin(gts)
        starts == {st \in i..Len(s) : s[st] = "<" /\ firstGt(st) >= st + 2}
    IN IF starts = {} THEN SubSeq(s, i, Len(s))
       ELSE LET st == SetMin(starts)
            IN SubSeq(s, i, st - 1) \o <<" ">> \o RemoveTags(s, firstGt(st) + 1)

\* re.sub(r"\s+", " ", s): every run of blanks becomes one space
CollapseSpaces(s) ==
    LET keep(i) == ~IsSpace(s[i]) \/ i = 1 \/ ~IsSpace(s[i - 1])
        kept == SelectSeq(Indices(Len(s)), keep)
    IN [k \in 1..Len(kept) |-> IF IsSpace(s[kept[k]]) THEN " " ELSE s[kept[k]]]

W_script_open == <<"<","s","c","r","i","p","t">>
W_script_close == <<"<","/","s","c","r","i","p","t",">">>
W_style_open == <<"<","s","t","y","l","e">>
W_style_close == <<"<","/","s","t","y","l","e",">">>

_strip_html_tags(html) ==
    LET noScript == RemoveBlocks(html, 1, W_script_open, W_script_close)
        noStyle == RemoveBlocks(noScript, 1, W_style_open, W_style_close)
        text == RemoveTags(noStyle, 1)
    IN Strip(CollapseSpaces(text))

TidyMaxLen == 15000

\* a variant that strips and never cuts
_tidy_text_uncut(text) == Strip(text)

_tidy_text(text) ==
    LET t == Strip(text)
    IN IF Len(t) > TidyMaxLen THEN SubSeq(t, 1, TidyMaxLen) ELSE t

-----------------------------------------------------------------------------
(* scrape_job_description(url). env is what the outside answers:           *)
(*   api_key   whether FIRECRAWL_API_KEY is set                            *)
(*   firecrawl "import_error", "init_error" or "ok"                        *)
(*   scrape_url, scrape   [kind |-> "raise"], [kind |-> "other"] (not a    *)
(*             dict) or [kind |-> "dict", items |-> key :> value]          *)
(*   direct    [kind |-> "raise"] or [kind |-> "ok", raw |-> bytes]        *)
(* A value of the dict is [kind |-> "str", s |-> text] or                  *)
(* [kind |-> "other", truthy |-> b] (a list, a number, None).              *)

\* a variant that prefers the raw markup
ScrapeKeysHtmlFirst == <<"html", "text", "content", "md", "markdown">>

ScrapeKeys == <<"markdown", "md", "content", "text", "html">>

Truthy(v) == IF v.kind = "str" THEN v.s # <<>> ELSE v.truthy

\* for key in (...): if key in data and data[key]: val = data[key]; if isinstance(val, str): return ...
RECURSIVE PickField(_, _)
PickField(items, k) ==
    IF k > Len(ScrapeKeys) THEN [found |-> FALSE, raw |-> None, value |-> None]
    ELSE LET key == ScrapeKeys[k]
         IN IF key \in DOMAIN items /\ Truthy(items[key]) /\ items[key].kind = "str"
            THEN LET val == items[key].s
                 IN [found |-> TRUE,
                     raw |-> val,
                     value |-> IF Contains(val, <<"<">>) /\ Contains(val, <<"<", "/">>)
                               THEN _tidy_text(_strip_html_tags(val))
                               ELSE _tidy_text(val)]
            ELSE PickField(items, k + 1)

\* the calls the structured stage makes, in order
StructuredCalls(env) ==
    IF ~env.api_key \/ env.firecrawl # "ok" THEN <<>>
    ELSE IF env.scrape_url.kind = "raise" THEN <<"scrape_url", "scrape">>
    ELSE <<"scrape_url">>

\* lines 27-52: the stage through the scraping client; found = it returned
StructuredFetch(env) ==
    IF ~env.api_key \/ env.firecrawl # "ok" THEN [found |-> FALSE, raw |-> None, value |-> None]
    ELSE LET data == IF env.scrape_url.kind # "raise" THEN env.scrape_url
                     ELSE IF env.scrape.kind # "raise" THEN env.scrape
                     ELSE [kind |-> "other"]
         IN IF data.kind = "dict" THEN PickField(data.items, 1)
            ELSE [found |-> FALSE, raw |-> None, value |-> None]

InvalidByte == "\\xff"
\* raw.decode("utf-8", errors="ignore")
DecodeIgnore(raw) == SelectSeq(raw, LAMBDA c : c # InvalidByte)

\* a variant without the try: a failed fetch goes to the caller
DirectFetch_uncaught(env) ==
    IF env.direct.kind = "raise" THEN Raised
    ELSE _tidy_text(_strip_html_tags(DecodeIgnore(env.direct.raw)))

\* lines 54-63: the direct fetch
DirectFetch(env) ==
    IF env.direct.kind = "raise" THEN None
    ELSE _tidy_text(_strip_html_tags(DecodeIgnore(env.direct.raw)))

scrape_job_description(url, env) ==
    IF url = None \/ url = <<>> THEN None
    ELSE LET st == StructuredFetch(env)
         IN IF st.found THEN st.value ELSE DirectFetch(env)

-----------------------------------------------------------------------------
(* Pages given to the scraper: up to MaxFrags pieces of markup and text.   *)

MaxFrags == 3

HtmlFrags ==
    { <<"<","p",">">>, <<"<","/","p",">">>, <<"H","i">>, <<"<">>, <<">">>, <<" ","\n">>,
      <<"<","S","c","r","i","p","t",">">>, <<"<","/","s","c","r","i","p","t",">">> }

RECURSIVE Concat(_)
Concat(ps) == IF ps = <<>> THEN <<>> ELSE ps[1] \o Concat(SubSeq(ps, 2, Len(ps)))

Htmls == UNION {{Concat(ps) : ps \in [1..n -> HtmlFrags]} : n \in 1..MaxFrags}

JobUrl == <<"h","t","t","p","s",":","/","/","x",".","i","o","/","j">>

Raises == [kind |-> "raise"]
NotADict == [kind |-> "other"]
DictOf(items) == [kind |-> "dict", items |-> items]
StrVal(s) == [kind |-> "str", s |-> s]
OtherVal(b) == [kind |-> "other", truthy |-> b]
Fetched(raw) == [kind |-> "ok", raw |-> raw]

Page == <<"<","p",">","H","i","<","/","p",">">>

\* pages and fields around the length limit of _tidy_text: n letters, bare, between
\* blanks, or inside a paragraph
LongText(n) == [i \in 1..n |-> "j"]
LongPages ==
    { LongText(TidyMaxLen), LongText(TidyMaxLen + 1),
      <<" ">> \o LongText(TidyMaxLen) \o <<"\n">>,
      <<"<","p",">">> \o LongText(TidyMaxLen + 1) \o <<"<","/","p",">">> }

NoKeyEnv(direct) ==
    [api_key |-> FALSE, firecrawl |-> "ok", scrape_url |-> Raises, scrape |-> Raises, direct |-> direct]
ClientEnv(scrape_url, scrape, direct) ==
    [api_key |-> TRUE, firecrawl |-> "ok", scrape_url |-> scrape_url, scrape |-> scrape, direct |-> direct]

ScrapeEnvs ==
    {NoKeyEnv(Fetched(h)) : h \in Htmls}
    \cup {ClientEnv(DictOf("markdown" :> StrVal(h)), Raises, Raises) : h \in Htmls}
    \cup {NoKeyEnv(Fetched(h)) : h \in LongPages}
    \cup {ClientEnv(DictOf("text" :> StrVal(h)), Raises, Raises) : h \in LongPages}
    \cup { NoKeyEnv(Raises),
           NoKeyEnv(Fetched(<<InvalidByte>> \o Page \o <<InvalidByte>>)),
           [NoKeyEnv(Fetched(Page)) EXCEPT !.api_key = TRUE, !.firecrawl = "import_error"],
           [NoKeyEnv(Fetched(Page)) EXCEPT !.api_key = TRUE, !.firecrawl = "init_error"],
           ClientEnv(Raises, DictOf("html" :> StrVal(Page)), Raises),
           ClientEnv(Raises, Raises, Fetched(Page)),
           ClientEnv(NotADict, Raises, Fetched(Page)),
           ClientEnv(DictOf("markdown" :> StrVal(<<>>) @@ "content" :> StrVal(Page)), Raises, Raises),
           ClientEnv(DictOf("md" :> OtherVal(TRUE) @@ "text" :> StrVal(Page)), Raises, Raises),
           ClientEnv(DictOf("md" :> OtherVal(FALSE)), Raises, Fetched(Page)),
           ClientEnv(DictOf("html" :> StrVal(Page) @@ "markdown" :> StrVal(<<"H","i">>)),
                     Raises, Raises),
           ClientEnv(Raises, DictOf("html" :> StrVal(Page) @@ "text" :> StrVal(<<"H","o">>)
                                    @@ "content" :> StrVal(<<>>)), Raises),
           ClientEnv(DictOf("content" :> StrVal(<<"C">>) @@ "md" :> StrVal(<<"M">>)
                            @@ "title" :> StrVal(<<"T">>)), Raises, Raises) }

ScrapeIdle ==
    /\ sj_pc = "idle" /\ sj_url = None /\ sj_env = NoKeyEnv(Raises)
    /\ sj_val = None /\ sj_result = None /\ sj_calls = <<>>

ScrapeStart ==
    /\ sj_pc = "start"
    /\ \/ sj_url = JobUrl /\ sj_env \in ScrapeEnvs
       \/ sj_url = <<>> /\ sj_env = NoKeyEnv(Fetched(Page))
    /\ sj_val = None
    /\ sj_result = None
    /\ sj_calls = <<>>

\* lines 25-52: the early return on an empty url, then the structured stage
ScrapeStructured ==
    /\ sj_pc = "start"
    /\ IF sj_url = None \/ sj_url = <<>>
       THEN sj_pc' = "done" /\ UNCHANGED <<sj_val, sj_result, sj_calls>>
       ELSE LET st == StructuredFetch(sj_env)
            IN /\ sj_calls' = sj_calls \o StructuredCalls(sj_env)
               /\ IF st.found
                  THEN sj_pc' = "done" /\ sj_val' = st.raw /\ sj_result' = st.value
                  ELSE sj_pc' = "direct" /\ UNCHANGED <<sj_val, sj_result>>
    /\ UNCHANGED <<sj_url, sj_env, scoreVars, handlerVars>>

\* lines 54-63: the direct fetch
ScrapeDirect ==
    /\ sj_pc = "direct"
    /\ sj_calls' = Append(sj_calls, "urlopen")
    /\ sj_val' = IF sj_env.direct.kind = "raise" THEN None ELSE DecodeIgnore(sj_env.direct.raw)
    /\ sj_result' = DirectFetch(sj_env)
    /\ sj_pc' = "done"
    /\ UNCHANGED <<sj_url, sj_env, scoreVars, handlerVars>>

NextScrape == ScrapeStructured \/ ScrapeDirect

-----------------------------------------------------------------------------
(* Validators, settings                                                    *)

MAX_FILE_SIZE_BYTES == 10485760
HR_BATCH_MAX_FILE_SIZE_BYTES == 2097152
HR_BATCH_MAX_FILES == 10

\* "if x" for an Optional[str]
TruthyStr(x) == x # None /\ x # <<>>

IsAlpha(c) == \E i \in 1..26 : UpperChars[i] = c \/ LowerChars[i] = c

\* urlparse(url).scheme: the characters before the first ":", lower-cased, when they
\* start with a letter and are letters, digits, "+", "-" or "."; otherwise ""
UrlSchemeEnd(url) ==
    LET colons == {i \in 1..Len(url) : url[i] = ":"}
        i == IF colons = {} THEN 0 ELSE SetMin(colons)
    IN IF i > 1 /\ IsAlpha(url[1])
          /\ \A k \in 1..(i - 1) : IsAlpha(url[k]) \/ IsDigit(url[k]) \/ url[k] \in {"+", "-", "."}
       THEN i ELSE 0

UrlScheme(url) ==
    LET i == UrlSchemeEnd(url)
    IN IF i = 0 THEN <<>> ELSE [k \in 1..(i - 1) |-> Lower(url[k])]

\* urlparse(url).netloc: after "//" up to the first "/", "?" or "#"
UrlNetloc(url) ==
    LET rest == SubSeq(url, UrlSchemeEnd(url) + 1, Len(url))
        stops == {j \in 3..Len(rest) : rest[j] \in {"/", "?", "#"}}
    IN IF Len(rest) >= 2 /\ rest[1] = "/" /\ rest[2] = "/"
       THEN SubSeq(rest, 3, IF stops = {} THEN Len(rest) ELSE SetMin(stops) - 1)
       ELSE <<>>

\* a variant that looks at the scheme only
is_valid_url_scheme_only(url) ==
    UrlScheme(url) \in {<<"h","t","t","p">>, <<"h","t","t","p","s">>}

is_valid_url(url) ==
    /\ UrlScheme(url) \in {<<"h","t","t","p">>, <<"h","t","t","p","s">>}
    /\ UrlNetloc(url) # <<>>

PdfSignature == <<"%","P","D","F">>

\* bytes.startswith on the bytes read: content is [len |-> number of bytes, head |-> the first four]
StartsWith(content, prefix) ==
    /\ content.len >= Len(prefix)
    /\ SubSeq(content.head, 1, Len(prefix)) = prefix

\* a variant that looks at the signature only
is_valid_pdf_signature_only(mimetype, content) == StartsWith(content, PdfSignature)

is_valid_pdf(mimetype, content) ==
    IF mimetype # "application/pdf" THEN FALSE
    ELSE StartsWith(content, PdfSignature)

-----------------------------------------------------------------------------
(* An uploaded file:                                                       *)
(*   filename, content_type, size (bytes), head (its first four bytes),    *)
(*   readable  whether UploadFile.read returns or raises,                  *)
(*   pdf   what pypdf makes of the bytes: [reader |-> "ok" or "raise",     *)
(*         pages |-> one [kind |-> "text", s |-> text] or [kind |->        *)
(*         "raise"] per page],                                             *)
(*   ocr   what pdf2image and pytesseract make of them: [convert |-> "ok"  *)
(*         or "raise", images |-> one outcome per page image],             *)
(*   gen   what the generation service answers for this resume:            *)
(*         [kind |-> "raise", msg |-> ...] or [kind |-> "ok", content |->  *)
(*         text or None].                                                  *)
(* The deployment dep: ocr_installed (pdf2image and pytesseract import),   *)
(* agent_import ("ok" or "raise": whether the agents package imports).     *)

\* await resume.read(n): at most n bytes, or an exception
ReadUpload(file, n) ==
    IF ~file.readable THEN [raised |-> TRUE, contents |-> [len |-> 0, head |-> <<>>]]
    ELSE [raised |-> FALSE,
          contents |-> [len |-> IF file.size < n THEN file.size ELSE n, head |-> file.head]]

RECURSIVE JoinLines(_)
\* "\n".join(parts)
JoinLines(parts) ==
    IF parts = <<>> THEN <<>>
    ELSE IF Len(parts) = 1 THEN parts[1]
    ELSE parts[1] \o <<"\n">> \o JoinLines(SubSeq(parts, 2, Len(parts)))

\* page.extract_text() or "", "" when the page raises
PageText(page) == IF page.kind = "raise" THEN <<>> ELSE page.s

\* a variant without the outer try: the exception of PdfReader goes to the caller
extract_text_pypdf_uncaught(pdf) ==
    IF pdf.reader = "raise" THEN Raised
    ELSE LET txts == [i \in 1..Len(pdf.pages) |-> PageText(pdf.pages[i])]
             text_parts == SelectSeq(txts, LAMBDA t : t # <<>>)
         IN Strip(JoinLines(text_parts))

\* a variant without the inner try: a page that raises ends the extraction
extract_text_pypdf_page_uncaught(pdf) ==
    IF pdf.reader = "raise" \/ \E i \in 1..Len(pdf.pages) : pdf.pages[i].kind = "raise"
    THEN <<>>
    ELSE LET txts == [i \in 1..Len(pdf.pages) |-> PageText(pdf.pages[i])]
             text_parts == SelectSeq(txts, LAMBDA t : t # <<>>)
         IN Strip(JoinLines(text_parts))

extract_text_pypdf(pdf) ==
    IF pdf.reader = "raise" THEN <<>>
    ELSE LET txts == [i \in 1..Len(pdf.pages) |-> PageText(pdf.pages[i])]
             text_parts == SelectSeq(txts, LAMBDA t : t # <<>>)
         IN Strip(JoinLines(text_parts))

\* a variant without the outer try: a failed import or conversion goes to the caller
extract_text_ocr_optional_uncaught(ocr, d) ==
    IF ~d.ocr_installed \/ ocr.convert = "raise" THEN Raised
    ELSE LET ts == [i \in 1..Len(ocr.images) |-> Strip(PageText(ocr.images[i]))]
             texts == SelectSeq(ts, LAMBDA t : t # <<>>)
             combined == Strip(JoinLines(texts))
         IN IF combined # <<>> THEN combined ELSE None

extract_text_ocr_optional(ocr, d) ==
    IF ~d.ocr_installed \/ ocr.convert = "raise" THEN None
    ELSE LET ts == [i \in 1..Len(ocr.images) |-> Strip(PageText(ocr.images[i]))]
             texts == SelectSeq(ts, LAMBDA t : t # <<>>)
             combined == Strip(JoinLines(texts))
         IN IF combined # <<>> THEN combined ELSE None

\* text = extract_text_pypdf(contents); if not text: ocr_text = ...; if ocr_text: text = ocr_text
\* Neither call is inside a try of the handlers: raised says that one of them raised.
ExtractText(file, d) ==
    LET text == extract_text_pypdf(file.pdf)
        ocr_text == extract_text_ocr_optional(file.ocr, d)
    IN IF text = Raised THEN [raised |-> TRUE, text |-> <<>>, calls |-> <<"pypdf">>]
       ELSE IF text # <<>> THEN [raised |-> FALSE, text |-> text, calls |-> <<"pypdf">>]
       ELSE IF ocr_text = Raised THEN [raised |-> TRUE, text |-> <<>>, calls |-> <<"pypdf", "ocr">>]
       ELSE [raised |-> FALSE,
             text |-> IF TruthyStr(ocr_text) THEN ocr_text ELSE text,
             calls |-> <<"pypdf", "ocr">>]

-----------------------------------------------------------------------------
(* agents/resume_agent_recruiter.py                                        *)

T_head ==
    <<
      "#"," ","R","e","s","u","m","e"," ","A","n","a","l","y","s","i","s"," ","R","e","p","o","r",
      "t","\n","\n","#","#"," ","U+1F4CA"," ","O","v","e","r","a","l","l"," ","M","a","t","c","h",
      " ","S","c","o","r","e",":"," " >>
T_strengths ==
    <<
      "%","\n","\n","#","#"," ","U+2705"," ","S","t","r","e","n","g","t","h","s","\n" >>
T_improvements ==
    <<
      "\n","\n","#","#"," ","U+1F527"," ","A","r","e","a","s"," ","f","o","r"," ","I","m","p","r",
      "o","v","e","m","e","n","t","\n" >>
T_recommendations ==
    <<
      "\n","\n","#","#"," ","U+1F3AF"," ","R","e","c","o","m","m","e","n","d","a","t","i","o","n",
      "s","\n" >>
T_competency ==
    <<
      "\n","\n","#","#"," ","U+1F4C8"," ","C","o","m","p","e","t","e","n","c","y"," ","A","n","a",
      "l","y","s","i","s","\n" >>
T_end ==
    <<
      "\n" >>
FALLBACK_ITEM ==
    <<
      "-"," ","N","o","t"," ","e","n","o","u","g","h"," ","i","n","f","o","r","m","a","t","i","o",
      "n","." >>

\* REPORT_TEMPLATE.format(...)
REPORT_TEMPLATE(overall_score, strengths, improvements, recommendations, competency) ==
    T_head \o overall_score \o T_strengths \o strengths \o T_improvements \o improvements
    \o T_recommendations \o recommendations \o T_competency \o competency \o T_end

\* a variant without the fallback report
run_recruiter_analysis_no_fallback(gen) ==
    IF gen.kind = "raise" THEN [raised |-> TRUE, msg |-> gen.msg, text |-> <<>>]
    ELSE [raised |-> FALSE, msg |-> "",
          text |-> IF TruthyStr(gen.content) THEN Strip(gen.content) ELSE <<>>]

\* run_recruiter_analysis once the agent is built: agent.run(prompt), then the
\* stripped content, or the fallback report when there is none
run_recruiter_analysis(gen) ==
    IF gen.kind = "raise" THEN [raised |-> TRUE, msg |-> gen.msg, text |-> <<>>]
    ELSE LET text == IF TruthyStr(gen.content) THEN Strip(gen.content) ELSE <<>>
         IN [raised |-> FALSE, msg |-> "",
             text |-> IF text = <<>>
                      THEN REPORT_TEMPLATE(<<"0">>, FALLBACK_ITEM, FALLBACK_ITEM,
                                           FALLBACK_ITEM, FALLBACK_ITEM)
                      ELSE text]

REF_LINKS ==
    << <<"https://drive.google.com/file/d/1F6FXFEuX1J_3XRZiGxXvx4uzmoDBRqpD/view">>,
       <<"https://www.themuse.com/advice/185-powerful-verbs-that-will-make-your-resume-awesome">>,
       <<"https://docs.google.com/document/d/e/2PACX-1vQa16NRCkScrUDW9bZGMRDgSVBgigzFFU6j8AI_jrAcRIkmKKyPAq4ZLbKVrWl3S8tTj3XiscHmJvL9/pub">> >>

RECURSIVE JoinParagraphs(_)
\* "\n\n".join(parts)
JoinParagraphs(parts) ==
    IF parts = <<>> THEN <<>>
    ELSE IF Len(parts) = 1 THEN parts[1]
    ELSE parts[1] \o <<"\n\n">> \o JoinParagraphs(SubSeq(parts, 2, Len(parts)))

ScrapeNote == "NOTE: FIRST scrape the JD URL using scrape_website and use its content as JD context."

\* craft_prompt. A text is a sequence of pieces: the characters of the request's and
\* the resume's text, and the literals of the code, one piece each. hr_questions is
\* <<>> for None and <<list>> for a list.
craft_prompt(inputs) ==
    JoinParagraphs(
        (IF TruthyStr(inputs.custom_instructions)
         THEN << <<"Additional Instructions:\n">> \o Strip(inputs.custom_instructions) \o <<"\n">> >>
         ELSE <<>>)
        \o << <<"Priority directive:\n",
                "- If 'HR Focus/Questions' appear in Additional Instructions above, EVALUATE THE RESUME AGAINST THEM FIRST.\n",
                "- Use Job Description (JD) as secondary context after HR Focus has been covered.\n">> >>
        \o (IF inputs.hr_questions # <<>>
                /\ \E i \in DOMAIN inputs.hr_questions[1] : Strip(inputs.hr_questions[1][i]) # <<>>
            THEN << <<"HR Questions (answer each concisely; if unknown, state 'Insufficient evidence').\n",
                     "You MUST include the section '## ", "U+2753", " HR Q&A' with one Q and one A per question.\n">>
                    \o JoinLines([i \in 1..Len(SelectSeq(inputs.hr_questions[1], LAMBDA q : Strip(q) # <<>>)) |->
                                   <<"- ">> \o Strip(SelectSeq(inputs.hr_questions[1], LAMBDA q : Strip(q) # <<>>)[i])]) >>
            ELSE <<>>)
        \o << <<"Job Title: ">>
               \o (IF TruthyStr(inputs.job_title) THEN Strip(inputs.job_title) ELSE <<>>) >>
        \o (IF TruthyStr(inputs.job_description_text)
            THEN << <<"Job Description (Provided):\n">> \o Strip(inputs.job_description_text) >>
            ELSE <<>>)
        \o (IF TruthyStr(inputs.job_description_url)
            THEN << <<"Job Description URL:\n">> \o Strip(inputs.job_description_url) >>
            ELSE <<>>)
        \o (IF ~TruthyStr(inputs.job_description_text)
                \/ Len(Strip(inputs.job_description_text)) < 200
            THEN IF TruthyStr(inputs.job_description_url)
                 THEN << <<ScrapeNote>> >>
                 ELSE << <<"NOTE: JD weak/missing ", "U+2014", " include an 'Assumptions' section.">> >>
            ELSE <<>>)
        \o << <<"Candidate Resume (Extracted Text):\n">> \o Strip(inputs.resume_text) >>
        \o << <<"Output strictly as Markdown using specified headings and constraints for quick HR screening.">> >>
        \o << <<"Reference Links (you may scrape):\n">>
               \o JoinLines([i \in 1..Len(REF_LINKS) |-> <<"- ">> \o REF_LINKS[i]]) >>)

-----------------------------------------------------------------------------
(* Responses                                                               *)

\* error_response(code, message, details, status_code); details is a record,
\* the empty dict is <<>>
error_response(code, message, details, status_code) ==
    [success |-> FALSE, code |-> code, message |-> message, details |-> details,
     status_code |-> status_code]

NoResponse == [pending |-> TRUE]
NoError == [success |-> TRUE]

\* a failed and a successful entry of the batch results list
FailedEntry(name, error) == [name |-> name, success |-> FALSE, error |-> error]
\* a variant that gives a successful entry an error field as well
SuccessEntryWithError(name, score, report) ==
    [name |-> name, success |-> TRUE, score |-> score, report |-> report, error |-> <<>>]

SuccessEntry(name, score, report) ==
    [name |-> name, success |-> TRUE, score |-> score, report |-> report]

-----------------------------------------------------------------------------
(* analyze_resumes_batch, app/api/routes_batch.py                          *)

MinJdLen == 200
MinScrapedLen == 50

\* lines 43-78: the validation before the loop; NoError when the request passes
BatchPreLoopError(rq) ==
    IF ~TruthyStr(rq.job_title) \/ Len(rq.resumes) = 0
    THEN error_response("MISSING_FIELDS", "Required fields are missing",
                        [missing |-> (IF ~TruthyStr(rq.job_title) THEN <<"jobTitle">> ELSE <<>>)
                                     \o (IF Len(rq.resumes) = 0 THEN <<"resumes">> ELSE <<>>)],
                        422)
    ELSE IF /\ ~(TruthyStr(rq.job_link) /\ Strip(rq.job_link) # <<>>)
            /\ ~(TruthyStr(rq.job_description) /\ Strip(rq.job_description) # <<>>)
    THEN error_response("MISSING_JOB_INFO", "Either job link or job description is required.",
                        [jobLink |-> rq.job_link, jobDescription |-> rq.job_description], 422)
    ELSE IF TruthyStr(rq.job_link) /\ ~is_valid_url(rq.job_link)
    THEN error_response("INVALID_JOB_LINK", "Job link must be a valid URL",
                        [received |-> rq.job_link], 422)
    ELSE IF Len(rq.resumes) > HR_BATCH_MAX_FILES
    THEN error_response("TOO_MANY_FILES", "Maximum 10 resumes allowed per batch.",
                        [maxFiles |-> HR_BATCH_MAX_FILES, received |-> Len(rq.resumes)], 413)
    ELSE NoError

\* a variant that scrapes when the job description is long enough instead
NeedsPreScrapeInverted(rq) ==
    /\ TruthyStr(rq.job_link)
    /\ ~(~TruthyStr(rq.job_description) \/ Len(Strip(rq.job_description)) < MinJdLen)
\* a variant that scrapes whenever there is a link
NeedsPreScrapeAnyJd(rq) == TruthyStr(rq.job_link)

\* line 82: if job_link and (not job_description or len(job_description.strip()) < 200)
NeedsPreScrape(rq) ==
    /\ TruthyStr(rq.job_link)
    /\ (~TruthyStr(rq.job_description) \/ Len(Strip(rq.job_description)) < MinJdLen)

\* a variant that keeps whatever was scraped
PreScrapedJdKeepAll(url, env) == scrape_job_description(url, env)

\* lines 83-85: the scraped text, dropped when it is shorter than 50 characters
PreScrapedJd(url, env) ==
    LET jd == scrape_job_description(url, env)
    IN IF TruthyStr(jd) /\ Len(jd) < MinScrapedLen THEN None ELSE jd

\* str(x) of an element of the parsed JSON list
PyStr(x) ==
    IF x.kind = "str" THEN x.s
    ELSE IF x.kind = "null" THEN <<"N","o","n","e">>
    ELSE IF x.b THEN <<"T","r","u","e">> ELSE <<"F","a","l","s","e">>

\* a variant that keeps every element of the list
hr_questions_uncut(raw) ==
    IF raw.kind = "list" THEN << [i \in 1..Len(raw.items) |-> PyStr(raw.items[i])] >> ELSE <<>>

\* lines 32-41: hr_questions from hr_questions_raw. raw.kind says what the form field
\* is: "absent", "empty" (the empty string), "invalid" (json.loads raises), "other"
\* (JSON that is no list) or "list" with its items. <<>> is None, <<list>> a list.
hr_questions(raw) ==
    IF raw.kind \in {"absent", "empty"} THEN <<>>
    ELSE IF raw.kind = "invalid" THEN <<>>
    ELSE IF raw.kind = "list"
    THEN << SubSeq([i \in 1..Len(raw.items) |-> PyStr(raw.items[i])], 1,
                   IF Len(raw.items) < 5 THEN Len(raw.items) ELSE 5) >>
    ELSE <<>>

PreScrapedNote ==
    "Job description was pre-scraped server-side. Do NOT scrape the JD URL again; use the provided JD text."

\* lines 126-139: custom_notes, None when there is none
custom_note(rq, scraped) ==
    LET custom_notes ==
            (IF TruthyStr(scraped)
             THEN << <<PreScrapedNote>>,
                     <<"You may consult the provided reference links for resume writing guidance if needed.">> >>
             ELSE <<>>)
            \o (IF TruthyStr(rq.hr_focus) /\ Strip(rq.hr_focus) # <<>>
                THEN << <<"HR Focus/Questions (PRIORITY ", "U+00E2", "U+20AC", "U+201D",
                          " evaluate these first; treat JD as secondary):\n">>
                        \o Strip(rq.hr_focus) >>
                ELSE <<>>)
    IN IF custom_notes # <<>> THEN JoinLines(custom_notes) ELSE None

\* a variant that hands the job link to the agent whatever was scraped
BatchAgentInputsKeepUrl(text, rq, scraped) ==
    [resume_text |-> text,
     job_title |-> rq.job_title,
     job_description_text |-> IF TruthyStr(scraped) THEN scraped ELSE rq.job_description,
     job_description_url |-> rq.job_link,
     custom_instructions |-> custom_note(rq, scraped),
     hr_questions |-> hr_questions(rq.hr_questions_raw)]

\* lines 122-147: the AgentInputs of one item
BatchAgentInputs(text, rq, scraped) ==
    [resume_text |-> text,
     job_title |-> rq.job_title,
     job_description_text |-> IF TruthyStr(scraped) THEN scraped ELSE rq.job_description,
     job_description_url |-> IF TruthyStr(scraped) THEN None ELSE rq.job_link,
     custom_instructions |-> custom_note(rq, scraped),
     hr_questions |-> hr_questions(rq.hr_questions_raw)]

ItemOutcome(entry, cs, given, crashed) ==
    [entry |-> entry, calls |-> cs, inputs |-> given, crashed |-> crashed]

\* lines 107-166: extraction, the agent and the score for a resume that was read and
\* is a PDF within the ceiling
AnalyzeItem(resume, rq, scraped, d) ==
    LET ex == ExtractText(resume, d)
        \* what run_recruiter_analysis is called with, and the prompt it composes
        given == <<BatchAgentInputs(ex.text, rq, scraped),
                   craft_prompt(BatchAgentInputs(ex.text, rq, scraped))>>
        an == run_recruiter_analysis(resume.gen)
    IN IF ex.raised
       THEN ItemOutcome(NoResponse, <<"read">> \o ex.calls, <<>>, TRUE)
       ELSE IF ~TruthyStr(ex.text)
       THEN ItemOutcome(FailedEntry(resume.filename, <<"Could not extract text from PDF">>),
                        <<"read">> \o ex.calls, <<>>, FALSE)
       ELSE IF d.agent_import = "raise"
       THEN ItemOutcome(FailedEntry(resume.filename, <<"Analysis failed: ", "No module named 'backend'">>),
                        <<"read">> \o ex.calls, <<>>, FALSE)
       ELSE IF an.raised
       THEN ItemOutcome(FailedEntry(resume.filename, <<"Analysis failed: ", an.msg>>),
                        <<"read">> \o ex.calls \o <<"generate">>, given, FALSE)
       ELSE ItemOutcome(SuccessEntry(resume.filename, parse_score_from_markdown(an.text), an.text),
                        <<"read">> \o ex.calls \o <<"generate">>, given, FALSE)

RECURSIVE TotalSize(_)
TotalSize(files) ==
    IF files = <<>> THEN 0 ELSE files[1].size + TotalSize(SubSeq(files, 2, Len(files)))

\* a variant that holds the size of the whole batch against the ceiling
BatchItemOutcomeTotalSize(resume, rq, scraped, d) ==
    LET rd == ReadUpload(resume, HR_BATCH_MAX_FILE_SIZE_BYTES + 1)
    IN IF rd.raised
       THEN ItemOutcome(FailedEntry(resume.filename, <<"Read error">>), <<"read">>, <<>>, FALSE)
       ELSE IF TotalSize(rq.resumes) > HR_BATCH_MAX_FILE_SIZE_BYTES
       THEN ItemOutcome(FailedEntry(resume.filename, <<"File size exceeds 2MB limit">>),
                        <<"read">>, <<>>, FALSE)
       ELSE IF ~is_valid_pdf(resume.content_type, rd.contents)
       THEN ItemOutcome(FailedEntry(resume.filename, <<"Only PDF files are allowed">>),
                        <<"read">>, <<>>, FALSE)
       ELSE AnalyzeItem(resume, rq, scraped, d)

\* a variant that looks at the type of the file before its size
BatchItemOutcomeTypeFirst(resume, rq, scraped, d) ==
    LET rd == ReadUpload(resume, HR_BATCH_MAX_FILE_SIZE_BYTES + 1)
    IN IF rd.raised
       THEN ItemOutcome(FailedEntry(resume.filename, <<"Read error">>), <<"read">>, <<>>, FALSE)
       ELSE IF ~is_valid_pdf(resume.content_type, rd.contents)
       THEN ItemOutcome(FailedEntry(resume.filename, <<"Only PDF files are allowed">>),
                        <<"read">>, <<>>, FALSE)
       ELSE IF rd.contents.len > HR_BATCH_MAX_FILE_SIZE_BYTES
       THEN ItemOutcome(FailedEntry(resume.filename, <<"File size exceeds 2MB limit">>),
                        <<"read">>, <<>>, FALSE)
       ELSE AnalyzeItem(resume, rq, scraped, d)

\* lines 91-166: one turn of the loop for one resume. entry is what is appended to
\* results; crashed says that an exception left the loop instead.
BatchItemOutcome(resume, rq, scraped, d) ==
    LET rd == ReadUpload(resume, HR_BATCH_MAX_FILE_SIZE_BYTES + 1)
    IN IF rd.raised
       THEN ItemOutcome(FailedEntry(resume.filename, <<"Read error">>), <<"read">>, <<>>, FALSE)
       ELSE IF rd.contents.len > HR_BATCH_MAX_FILE_SIZE_BYTES
       THEN ItemOutcome(FailedEntry(resume.filename, <<"File size exceeds 2MB limit">>),
                        <<"read">>, <<>>, FALSE)
       ELSE IF ~is_valid_pdf(resume.content_type, rd.contents)
       THEN ItemOutcome(FailedEntry(resume.filename, <<"Only PDF files are allowed">>),
                        <<"read">>, <<>>, FALSE)
       ELSE AnalyzeItem(resume, rq, scraped, d)

\* a variant that keeps the successful entries only
AppendResultIfSuccess(rs, entry) == IF entry.success THEN Append(rs, entry) ELSE rs
\* results.append(...)
AppendResult(rs, entry) == Append(rs, entry)

-----------------------------------------------------------------------------
(* Requests: the files that can be uploaded, the form fields, the          *)
(* deployments, and what the network answers to the batch's scrape.        *)

Text(n) == [i \in 1..n |-> "j"]

ResumeText == <<"A","d","a">>
TextPage(s) == [kind |-> "text", s |-> s]
RaisingPage == [kind |-> "raise"]
ReadablePdf == [reader |-> "ok", pages |-> <<TextPage(ResumeText)>>]
NoOcr == [convert |-> "raise", images |-> <<>>]
Generates(content) == [kind |-> "ok", content |-> content]
GenerationFails(msg) == [kind |-> "raise", msg |-> msg]

Report87 ==
    <<"#","#"," ","O","v","e","r","a","l","l"," ","M","a","t","c","h"," ",
      "S","c","o","r","e",":"," ","8","7","%","\n">>
ReportNoScore == <<"G","o","o","d"," ","f","i","t">>

\* a PDF with a text layer; the service answers with a scored report
GoodPdf ==
    [filename |-> "good.pdf", content_type |-> "application/pdf", size |-> 1000,
     head |-> PdfSignature, readable |-> TRUE, pdf |-> ReadablePdf, ocr |-> NoOcr,
     gen |-> Generates(Report87)]

\* a scanned PDF: no text layer, one page raising; OCR reads it where OCR is installed
ScanPdf ==
    [GoodPdf EXCEPT !.filename = "scan.pdf",
        !.pdf = [reader |-> "ok", pages |-> <<TextPage(<<>>), RaisingPage>>],
        !.ocr = [convert |-> "ok", images |-> <<RaisingPage, TextPage(<<" ">> \o ResumeText \o <<"\n">>)>>],
        !.gen = Generates(ReportNoScore)]

\* a PDF with the signature that pypdf cannot open, and only blanks for OCR
BlankPdf ==
    [GoodPdf EXCEPT !.filename = "blank.pdf",
        !.pdf = [reader |-> "raise", pages |-> <<>>],
        !.ocr = [convert |-> "ok", images |-> <<TextPage(<<" ">>)>>]]

\* a PDF whose one page holds blanks only; OCR reads it where OCR is installed
WhitePdf ==
    [GoodPdf EXCEPT !.filename = "white.pdf",
        !.pdf = [reader |-> "ok", pages |-> <<TextPage(<<" ", "\n">>)>>],
        !.ocr = [convert |-> "ok", images |-> <<TextPage(ResumeText)>>]]

\* one byte over the batch ceiling
BigPdf == [GoodPdf EXCEPT !.filename = "big.pdf", !.size = HR_BATCH_MAX_FILE_SIZE_BYTES + 1]

\* not a PDF
GifFile ==
    [GoodPdf EXCEPT !.filename = "photo.gif", !.content_type = "image/gif",
        !.head = <<"G","I","F","8">>]

\* the upload cannot be read
UnreadablePdf == [GoodPdf EXCEPT !.filename = "unreadable.pdf", !.readable = FALSE]

\* the generation call fails
FlakyPdf == [GoodPdf EXCEPT !.filename = "flaky.pdf", !.gen = GenerationFails("quota exceeded")]

\* the generation call returns blanks
MutePdf == [GoodPdf EXCEPT !.filename = "mute.pdf", !.gen = Generates(<<" ", "\n">>)]

BatchFiles == {GoodPdf, ScanPdf, BlankPdf, BigPdf, GifFile, UnreadablePdf, FlakyPdf, MutePdf}

\* Batches: every sequence of up to MaxMixed files, and up to HR_BATCH_MAX_FILES + 1
\* copies of one file
MaxMixed == 2

Batches ==
    UNION {[1..n -> BatchFiles] : n \in 0..MaxMixed}
    \cup {[i \in 1..n |-> f] : n \in 1..(HR_BATCH_MAX_FILES + 1), f \in BatchFiles}

JobTitle == <<"Q","A">>
BadUrl == <<"f","t","p",":","/","/","x",".","i","o">>

JobTitles == {None, JobTitle}
\* no link, a valid one, and three that are no http/https URL with a host:
\* "ftp://x.io", "http://" and "x.io/j"
JobLinks ==
    {None, BadUrl, JobUrl, <<"h","t","t","p",":","/","/">>, <<"x",".","i","o","/","j">>}
JobDescriptions ==
    {None, <<" ", "\n">>, <<" ">> \o Text(MinJdLen - 1) \o <<"\n">>, Text(MinJdLen)}
HrFocuses == {None, <<" ">>, <<" ","k","8","s","\n">>}

NoQuestions == [kind |-> "absent"]
Q(s) == [kind |-> "str", s |-> s]
HrQuestionsRaws ==
    { NoQuestions, [kind |-> "empty"], [kind |-> "invalid"], [kind |-> "other"],
      [kind |-> "list", items |-> <<>>],
      [kind |-> "list", items |-> <<Q(<<"a","?">>), Q(<<" ">>), [kind |-> "null"], Q(<<" ","b","?">>)>>],
      [kind |-> "list", items |-> <<Q(<<"1">>), Q(<<"2">>), Q(<<"3">>), Q(<<"4">>), Q(<<"5">>)>>],
      [kind |-> "list", items |-> <<Q(<<"1">>), Q(<<"2">>), Q(<<"3">>), [kind |-> "bool", b |-> TRUE],
                                    Q(<<"5">>), Q(<<"6">>), Q(<<"7">>)>>] }

Deployments ==
    { [ocr_installed |-> TRUE, agent_import |-> "ok", stalls |-> "none"],
      [ocr_installed |-> FALSE, agent_import |-> "ok", stalls |-> "none"],
      [ocr_installed |-> TRUE, agent_import |-> "raise", stalls |-> "none"] }

StalledDeployments ==
    { [ocr_installed |-> TRUE, agent_import |-> "ok", stalls |-> "scrape"],
      [ocr_installed |-> TRUE, agent_import |-> "ok", stalls |-> "generate"] }

BatchScrapeEnvs ==
    { NoKeyEnv(Raises),
      NoKeyEnv(Fetched(Text(MinScrapedLen - 1))),
      NoKeyEnv(Fetched(Text(MinScrapedLen))),
      ClientEnv(DictOf("markdown" :> StrVal(<<" ">>)), Raises, Raises),
      [NoKeyEnv(Raises) EXCEPT !.api_key = TRUE, !.firecrawl = "import_error"],
      [NoKeyEnv(Raises) EXCEPT !.api_key = TRUE, !.firecrawl = "init_error"],
      ClientEnv(Raises, Raises, Raises),
      ClientEnv(NotADict, Raises, Raises),
      ClientEnv(Raises, DictOf("html" :> OtherVal(TRUE)), Raises) }

HandlerIdle ==
    /\ pc = "idle"
    /\ req = [job_title |-> None, job_description |-> None, job_link |-> None,
              hr_focus |-> None, hr_questions_raw |-> NoQuestions, resumes |-> <<>>]
    /\ dep = [ocr_installed |-> FALSE, agent_import |-> "ok", stalls |-> "none"]
    /\ batch_scraped_jd = None
    /\ idx = 0
    /\ results = <<>>
    /\ contents = [len |-> 0, head |-> <<>>]
    /\ extracted_text = <<>>
    /\ response = NoResponse
    /\ calls = <<>>
    /\ agent_inputs = <<>>

BatchStart ==
    /\ pc = "start"
    /\ req \in [job_title : JobTitles, job_description : JobDescriptions, job_link : JobLinks,
                hr_focus : {None}, hr_questions_raw : {NoQuestions}, resumes : Batches]
               \cup [job_title : {JobTitle}, job_description : {None, Text(MinJdLen)},
                     job_link : {JobUrl}, hr_focus : HrFocuses,
                     hr_questions_raw : HrQuestionsRaws,
                     resumes : {<<GoodPdf>>, <<FlakyPdf, GoodPdf>>,
                                \* a PDF of exactly 2MB, then a GIF one byte over
                                <<[GoodPdf EXCEPT !.filename = "full.pdf",
                                                  !.size = HR_BATCH_MAX_FILE_SIZE_BYTES],
                                  [GifFile EXCEPT !.filename = "big.gif",
                                                  !.size = HR_BATCH_MAX_FILE_SIZE_BYTES + 1]>>,
                                \* the generation service returns no content at all
                                <<MutePdf, [GoodPdf EXCEPT !.filename = "void.pdf",
                                                           !.gen = Generates(None)]>>,
                                \* a GIF far over the ceiling
                                <<[GifFile EXCEPT !.filename = "film.gif",
                                                  !.size = 5 * HR_BATCH_MAX_FILE_SIZE_BYTES]>>}]
    /\ dep \in Deployments \cup StalledDeployments
    /\ batch_scraped_jd = None
    /\ idx = 0
    /\ results = <<>>
    /\ contents = [len |-> 0, head |-> <<>>]
    /\ extracted_text = <<>>
    /\ response = NoResponse
    /\ calls = <<>>
    /\ agent_inputs = <<>>

\* lines 43-78
BatchValidate ==
    /\ pc = "start"
    /\ LET err == BatchPreLoopError(req)
       IN IF err.success
          THEN pc' = "prescrape" /\ UNCHANGED response
          ELSE pc' = "done" /\ response' = err
    /\ UNCHANGED <<req, dep, batch_scraped_jd, idx, results, contents, extracted_text,
                   calls, agent_inputs, scoreVars, scrapeVars>>

\* lines 80-89
BatchPreScrape ==
    /\ pc = "prescrape"
    /\ IF NeedsPreScrape(req)
       THEN \E env \in BatchScrapeEnvs :
              /\ calls' = Append(calls, "scrape")
              \* client.scrape_url(url) is called without a timeout: the handler
              \* waits in it for as long as the service does not answer
              /\ IF dep.stalls = "scrape"
                 THEN pc' = "waiting" /\ UNCHANGED <<batch_scraped_jd, results, idx>>
                 ELSE /\ IF scrape_job_description(req.job_link, env) = Raised
                         THEN pc' = "crashed" /\ UNCHANGED batch_scraped_jd
                         ELSE /\ pc' = "loop"
                              /\ batch_scraped_jd' = PreScrapedJd(req.job_link, env)
                      /\ results' = <<>>
                      /\ idx' = 1
       ELSE /\ pc' = "loop" /\ UNCHANGED <<batch_scraped_jd, calls>>
            /\ results' = <<>>
            /\ idx' = 1
    /\ UNCHANGED <<req, dep, contents, extracted_text, response, agent_inputs,
                   scoreVars, scrapeVars>>

\* what one turn of the loop leaves behind: the entry appended, or the exception
ApplyOutcome(out) ==
    /\ calls' = calls \o out.calls
    /\ agent_inputs' = IF out.inputs = <<>> THEN agent_inputs ELSE out.inputs
    /\ IF out.crashed
       THEN pc' = "crashed" /\ UNCHANGED <<results, idx>>
       \* agent.run(prompt) is called without a timeout: the handler waits in it
       \* for as long as the service does not answer
       ELSE IF dep.stalls = "generate" /\ \E i \in DOMAIN out.calls : out.calls[i] = "generate"
       THEN pc' = "waiting" /\ UNCHANGED <<results, idx>>
       ELSE /\ results' = AppendResult(results, out.entry)
            /\ idx' = idx + 1
            /\ pc' = "loop"

\* a variant that drops the scraped JD once an item is done
BatchItemForgetsJd ==
    /\ pc = "loop"
    /\ idx <= Len(req.resumes)
    /\ ApplyOutcome(BatchItemOutcome(req.resumes[idx], req, batch_scraped_jd, dep))
    /\ batch_scraped_jd' = None
    /\ UNCHANGED <<req, dep, contents, extracted_text, response, scoreVars, scrapeVars>>

\* lines 90-166: one resume
BatchItem ==
    /\ pc = "loop"
    /\ idx <= Len(req.resumes)
    /\ ApplyOutcome(BatchItemOutcome(req.resumes[idx], req, batch_scraped_jd, dep))
    /\ UNCHANGED <<req, dep, batch_scraped_jd, contents, extracted_text, response,
                   scoreVars, scrapeVars>>

\* line 168
BatchReturn ==
    /\ pc = "loop"
    /\ idx > Len(req.resumes)
    /\ response' = [success |-> TRUE, results |-> results, message |-> "Batch analysis completed."]
    /\ pc' = "done"
    /\ UNCHANGED <<req, dep, batch_scraped_jd, idx, results, contents, extracted_text,
                   calls, agent_inputs, scoreVars, scrapeVars>>

NextBatch == BatchValidate \/ BatchPreScrape \/ BatchItem \/ BatchReturn

-----------------------------------------------------------------------------
(* analyze_resume, app/api/routes_individual.py. req.resumes holds the one *)
(* uploaded file, or nothing when resume is None.                          *)

\* agents/resume_agent_individual.py, run_individual_analysis: as run_recruiter_analysis
\* (the file writes the emoji of the fallback report's headings in another encoding)
\* a variant that answers a failed generation with the fallback report
run_individual_analysis_fallback(gen) ==
    IF gen.kind = "raise"
    THEN [raised |-> FALSE, msg |-> "",
          text |-> REPORT_TEMPLATE(<<"0">>, FALLBACK_ITEM, FALLBACK_ITEM,
                                   FALLBACK_ITEM, FALLBACK_ITEM)]
    ELSE run_recruiter_analysis(gen)

run_individual_analysis(gen) == run_recruiter_analysis(gen)

_validate_required(job_title, resumes) ==
    IF ~TruthyStr(job_title) \/ Len(resumes) = 0
    THEN error_response("MISSING_FIELDS", "Required fields are missing",
                        [missing |-> (IF ~TruthyStr(job_title) THEN <<"jobTitle">> ELSE <<>>)
                                     \o (IF Len(resumes) = 0 THEN <<"resume">> ELSE <<>>)],
                        422)
    ELSE NoError

_validate_job_link(job_link) ==
    IF TruthyStr(job_link) /\ ~is_valid_url(job_link)
    THEN error_response("INVALID_JOB_LINK", "Job link must be a valid URL",
                        [received |-> job_link], 422)
    ELSE NoError

\* the except branch of _read_resume_file
ReadFailed ==
    error_response("INTERNAL_ERROR", "An unexpected error occurred while processing your request",
                   <<>>, 500)

\* a variant that checks the size and nothing else
_validate_pdf_file_size_only(content, content_type) ==
    IF content.len > MAX_FILE_SIZE_BYTES
    THEN error_response("FILE_TOO_LARGE", "File size exceeds 10MB limit",
                        [maxSize |-> "10MB"], 413)
    ELSE NoError

_validate_pdf_file(content, content_type) ==
    IF content.len > MAX_FILE_SIZE_BYTES
    THEN error_response("FILE_TOO_LARGE", "File size exceeds 10MB limit",
                        [maxSize |-> "10MB"], 413)
    ELSE IF ~is_valid_pdf(content_type, content)
    THEN error_response("INVALID_FILE_TYPE", "Only PDF files are allowed",
                        [allowedTypes |-> <<"application/pdf">>, received |-> content_type], 415)
    ELSE IF ~StartsWith(content, PdfSignature) \/ content.len < 5
    THEN error_response("CORRUPTED_PDF", "PDF file appears to be corrupted",
                        [reason |-> "Unable to extract text content"], 400)
    ELSE NoError

HugeGif == [GifFile EXCEPT !.filename = "huge.gif", !.size = MAX_FILE_SIZE_BYTES + 1]
HugePdf == [GoodPdf EXCEPT !.filename = "huge.pdf", !.size = MAX_FILE_SIZE_BYTES + 1]
\* declared as a PDF, the bytes are not
MislabeledGif == [GifFile EXCEPT !.filename = "photo.pdf", !.content_type = "application/pdf"]
\* the bytes are a PDF, declared as text
MislabeledPdf == [GoodPdf EXCEPT !.filename = "cv.txt", !.content_type = "text/plain"]
\* the four bytes of the signature and nothing else
TinyPdf ==
    [GoodPdf EXCEPT !.filename = "tiny.pdf", !.size = 4,
        !.pdf = [reader |-> "raise", pages |-> <<>>]]
\* shorter than the signature
ShortFile == [TinyPdf EXCEPT !.filename = "short.pdf", !.size = 3, !.head = <<"%","P","D">>]

\* not a PDF, and the upload cannot be read
UnreadableGif == [GifFile EXCEPT !.filename = "unreadable.gif", !.readable = FALSE]

SingleFiles ==
    BatchFiles \cup {WhitePdf, HugeGif, HugePdf, MislabeledGif, MislabeledPdf, TinyPdf, ShortFile,
                     UnreadableGif,
                     \* a PDF of exactly 10MB, and a GIF far over the ceiling
                     [GoodPdf EXCEPT !.filename = "full.pdf", !.size = MAX_FILE_SIZE_BYTES],
                     \* four pages, the second raising and the third blank
                     [GoodPdf EXCEPT !.filename = "pages.pdf",
                        !.pdf = [reader |-> "ok",
                                 pages |-> <<TextPage(<<" ","A"," ">>), RaisingPage,
                                             TextPage(<<" ">>), TextPage(<<"B","\n">>)>>]],
                     \* no text layer; four images, the second raising and the third blank
                     [GoodPdf EXCEPT !.filename = "images.pdf",
                        !.pdf = [reader |-> "ok", pages |-> <<RaisingPage, TextPage(<<>>)>>],
                        !.ocr = [convert |-> "ok",
                                 images |-> <<TextPage(<<" ","A"," ">>), RaisingPage,
                                              TextPage(<<" ">>), TextPage(<<"B","\n">>)>>]],
                     [GifFile EXCEPT !.filename = "film.gif", !.size = 5 * MAX_FILE_SIZE_BYTES]}

SingleStart ==
    /\ pc = "start"
    /\ req \in [job_title : JobTitles, job_description : JobDescriptions, job_link : JobLinks,
                hr_focus : {None}, hr_questions_raw : {NoQuestions},
                resumes : {<<>>} \cup {<<f>> : f \in SingleFiles}]
    /\ dep \in Deployments
    /\ batch_scraped_jd = None
    /\ idx = 0
    /\ results = <<>>
    /\ contents = [len |-> 0, head |-> <<>>]
    /\ extracted_text = <<>>
    /\ response = NoResponse
    /\ calls = <<>>
    /\ agent_inputs = <<>>

\* lines 94-99
SingleValidate ==
    /\ pc = "start"
    /\ LET err1 == _validate_required(req.job_title, req.resumes)
           err2 == _validate_job_link(req.job_link)
       IN IF ~err1.success THEN pc' = "done" /\ response' = err1
          ELSE IF ~err2.success THEN pc' = "done" /\ response' = err2
          ELSE pc' = "read" /\ UNCHANGED response
    /\ UNCHANGED <<req, dep, batch_scraped_jd, idx, results, contents, extracted_text,
                   calls, agent_inputs, scoreVars, scrapeVars>>

\* lines 101-110
SingleRead ==
    /\ pc = "read"
    /\ calls' = Append(calls, "read")
    /\ LET rd == ReadUpload(req.resumes[1], MAX_FILE_SIZE_BYTES + 1)
           err == _validate_pdf_file(rd.contents, req.resumes[1].content_type)
       IN IF rd.raised
          THEN pc' = "done" /\ response' = ReadFailed /\ UNCHANGED contents
          ELSE /\ contents' = rd.contents
               /\ IF err.success
                  THEN pc' = "extract" /\ UNCHANGED response
                  ELSE pc' = "done" /\ response' = err
    /\ UNCHANGED <<req, dep, batch_scraped_jd, idx, results, extracted_text,
                   agent_inputs, scoreVars, scrapeVars>>

\* lines 112-123
SingleExtract ==
    /\ pc = "extract"
    /\ LET ex == ExtractText(req.resumes[1], dep)
       IN /\ calls' = calls \o ex.calls
          /\ IF ex.raised
             THEN pc' = "crashed" /\ UNCHANGED <<extracted_text, response>>
             ELSE /\ extracted_text' = ex.text
                  /\ IF ~TruthyStr(ex.text)
                     THEN /\ pc' = "done"
                          /\ response' = error_response("TEXT_EXTRACTION_FAILED",
                                 "Could not extract text from PDF",
                                 [reason |-> "PDF may be image-based or corrupted"], 422)
                     ELSE pc' = "analyze" /\ UNCHANGED response
    /\ UNCHANGED <<req, dep, batch_scraped_jd, idx, results, contents,
                   agent_inputs, scoreVars, scrapeVars>>

\* lines 126-156
SingleAnalyze ==
    /\ pc = "analyze"
    /\ LET an == run_individual_analysis(req.resumes[1].gen)
           inputs == [resume_text |-> extracted_text,
                      job_title |-> req.job_title,
                      job_description_text |-> req.job_description,
                      job_description_url |-> req.job_link,
                      custom_instructions |-> None]
           failed == error_response("ANALYSIS_FAILED", "Failed to analyze resume content",
                                    [reason |-> "AI service unavailable", retryAfter |-> "30s"],
                                    502)
       IN IF dep.agent_import = "raise"
          THEN response' = failed /\ UNCHANGED <<calls, agent_inputs>>
          ELSE /\ calls' = Append(calls, "generate")
               /\ agent_inputs' = <<inputs>>
               /\ response' = IF an.raised THEN failed
                              ELSE [success |-> TRUE, data |-> [analysisReport |-> an.text],
                                    message |-> "Analysis completed successfully"]
    /\ pc' = "done"
    /\ UNCHANGED <<req, dep, batch_scraped_jd, idx, results, contents, extracted_text,
                   scoreVars, scrapeVars>>

NextSingle == SingleValidate \/ SingleRead \/ SingleExtract \/ SingleAnalyze

-----------------------------------------------------------------------------
(* Specifications                                                          *)

InitScore == ScoreStart /\ ScrapeIdle /\ HandlerIdle
SpecScore == InitScore /\ [][NextScore]_vars

InitScrape == ScrapeStart /\ ScoreIdle /\ HandlerIdle
SpecScrape == InitScrape /\ [][NextScrape]_vars

InitSingle == SingleStart /\ ScoreIdle /\ ScrapeIdle
SpecSingle == InitSingle /\ [][NextSingle]_vars

\* every upstream service answers: it returns or it raises
Init == BatchStart /\ ScoreIdle /\ ScrapeIdle /\ dep \in Deployments
Next == NextBatch
Spec == Init /\ [][Next]_vars

\* the batch handler with upstream services that may not answer
InitUpstream ==
    /\ BatchStart /\ ScoreIdle /\ ScrapeIdle
    /\ req.job_title = JobTitle /\ req.job_link = JobUrl /\ req.hr_focus = None
    /\ req.hr_questions_raw = NoQuestions
    /\ req.resumes \in {<<GoodPdf>>, <<ScanPdf, GoodPdf>>, <<GifFile, FlakyPdf>>}
SpecUpstream == InitUpstream /\ [][Next]_vars

-----------------------------------------------------------------------------
(* Properties of analyze_resumes_batch (Spec)                              *)

Count(seq, x) == Cardinality({i \in DOMAIN seq : seq[i] = x})

\* the request passed the validation before the loop: the handler went past line 78
PastPreLoop == pc \in {"prescrape", "loop", "done"} /\ (pc = "done" => idx >= 1)

\* a job link is present and the job description is absent or shorter than 200
\* characters after stripping
LinkAndWeakJd ==
    /\ req.job_link # None /\ req.job_link # <<>>
    /\ \/ req.job_description = None
       \/ Len(Strip(req.job_description)) < 200

\* C1: for a request past the pre-loop validation with a job link and a weak job
\* description, scrape_job_description has been called exactly once when the loop
\* starts and when the handler returns, it is the first call (no resume is read before
\* it), and this holds for every batch size.
C1_ScrapeOncePerBatch ==
    (PastPreLoop /\ pc \in {"loop", "done"} /\ LinkAndWeakJd)
        => /\ Count(calls, "scrape") = 1
           /\ calls[1] = "scrape"
           /\ \A i \in DOMAIN calls : calls[i] = "read" => i > 1

C1_Witness ==
    /\ pc = "done" /\ LinkAndWeakJd
    /\ Len(req.resumes) = HR_BATCH_MAX_FILES
    /\ Count(calls, "read") = HR_BATCH_MAX_FILES
    /\ Count(calls, "scrape") = 1

\* C2: when the handler returns for a request past the pre-loop validation, the
\* results list has one entry per uploaded file and entry i carries the filename of
\* the i-th file; while the loop runs, the entries so far are those of the files so far.
C2_OneEntryPerFileInOrder ==
    /\ (pc = "loop" /\ idx >= 1)
          => /\ Len(results) = idx - 1
             /\ \A i \in 1..Len(results) : results[i].name = req.resumes[i].filename
    /\ (pc = "done" /\ idx >= 1)
          => /\ Len(response.results) = Len(req.resumes)
             /\ \A i \in 1..Len(req.resumes) :
                   response.results[i].name = req.resumes[i].filename

C2_Witness ==
    /\ pc = "done" /\ idx >= 1
    /\ Len(response.results) = 2
    /\ response.results[1].name # response.results[2].name
    /\ ~response.results[1].success
    /\ response.results[2].success

\* C3: no exception leaves the handler; once the loop is entered the handler returns
\* the envelope success = TRUE with a results list, whatever the items did; an error
\* envelope is only returned when nothing was read, extracted or generated.
C3_NoItemFailureEscapes ==
    /\ pc # "crashed"
    /\ (pc = "done" /\ idx >= 1)
          => /\ response.success = TRUE
             /\ "results" \in DOMAIN response
             /\ Len(response.results) = Len(req.resumes)
    /\ (pc = "done" /\ ~response.success) => idx = 0 /\ calls = <<>> /\ results = <<>>

C3_Witness ==
    /\ pc = "done"
    /\ response.success = TRUE
    /\ Len(response.results) >= 2
    /\ \A i \in 1..Len(response.results) : ~response.results[i].success
    /\ \E i \in 1..Len(req.resumes) : req.resumes[i].pdf.reader = "raise"

\* the entry the handler gives a file when it is the only file of a request with the
\* same shared fields, the same scraped text and the same deployment
AloneEntry(file) ==
    BatchItemOutcome(file, [req EXCEPT !.resumes = <<file>>], batch_scraped_jd, dep).entry

\* C4: the entry of item i is the entry the same file gets alone under the same shared
\* fields, so it does not depend on the other items; equal files get equal entries; a
\* readable item over the 2MB ceiling is marked failed with the size error, and a
\* readable PDF within the ceiling never gets the size error whatever its neighbours.
C4_ItemEntryDependsOnItemOnly ==
    \A i \in 1..Len(results) :
        LET f == req.resumes[i]
        IN /\ results[i] = AloneEntry(f)
           /\ \A j \in 1..Len(results) : req.resumes[j] = f => results[j] = results[i]
           /\ (f.readable /\ f.size > 2097152)
                 => results[i] = [name |-> f.filename, success |-> FALSE,
                                  error |-> <<"File size exceeds 2MB limit">>]
           /\ (f.readable /\ f.size <= 2097152)
                 => (results[i].success \/ results[i].error # <<"File size exceeds 2MB limit">>)

C4_Witness ==
    /\ pc = "done" /\ Len(results) = 2
    /\ req.resumes[1].size > 2097152
    /\ results[1].error = <<"File size exceeds 2MB limit">>
    /\ results[2].success
    /\ results[2].score = <<87>>

-----------------------------------------------------------------------------
(* Properties of analyze_resume (SpecSingle)                               *)

\* the request has a job title, a valid or absent job link and one file
ValidSingleRequest ==
    /\ req.job_title # None /\ req.job_title # <<>>
    /\ (req.job_link = None \/ is_valid_url(req.job_link))
    /\ Len(req.resumes) = 1

\* the payload does not start with %PDF
NoPdfSignature(file) == file.size < 4 \/ file.head # <<"%","P","D","F">>

ExtractionRan == Count(calls, "pypdf") + Count(calls, "ocr") > 0

\* C5 (as stated): for a single-item request with a job title, a valid or absent job
\* link and a payload without the %PDF signature, the error code is CORRUPTED_PDF or
\* INVALID_FILE_TYPE, never TEXT_EXTRACTION_FAILED, and extraction is never run.
C5_Original ==
    (ValidSingleRequest /\ NoPdfSignature(req.resumes[1]))
        => /\ pc \notin {"extract", "analyze", "crashed"}
           /\ ~ExtractionRan
           /\ pc = "done" => /\ ~response.success
                             /\ response.code \in {"CORRUPTED_PDF", "INVALID_FILE_TYPE"}

\* C5 (amended): such a request is answered with an error whose code is CORRUPTED_PDF
\* or INVALID_FILE_TYPE when the payload was read and is at most 10MB, FILE_TOO_LARGE
\* when it is larger than 10MB, INTERNAL_ERROR when the upload could not be read;
\* it is never TEXT_EXTRACTION_FAILED, and extraction is never run.
C5_NonPdfPayloadRejected ==
    (ValidSingleRequest /\ NoPdfSignature(req.resumes[1]))
        => /\ pc \notin {"extract", "analyze", "crashed"}
           /\ ~ExtractionRan
           /\ pc = "done"
                => /\ ~response.success
                   /\ response.code # "TEXT_EXTRACTION_FAILED"
                   /\ IF ~req.resumes[1].readable THEN response.code = "INTERNAL_ERROR"
                      ELSE IF req.resumes[1].size > 10485760
                      THEN response.code = "FILE_TOO_LARGE"
                      ELSE response.code \in {"CORRUPTED_PDF", "INVALID_FILE_TYPE"}

C5_Witness ==
    /\ pc = "done"
    /\ ValidSingleRequest /\ NoPdfSignature(req.resumes[1])
    /\ req.resumes[1].content_type = "application/pdf"
    /\ req.resumes[1].size <= 10485760
    /\ response.code = "INVALID_FILE_TYPE"
    /\ calls = <<"read">>

\* the request passed the file validation: the upload was read, is at most 10MB, is
\* declared a PDF and starts with %PDF followed by at least one more byte
PassedFileValidation ==
    /\ ValidSingleRequest
    /\ LET f == req.resumes[1]
       IN /\ f.readable
          /\ f.size <= 10485760
          /\ f.content_type = "application/pdf"
          /\ f.size >= 5 /\ f.head = <<"%","P","D","F">>

IsBlank(s) == \A i \in 1..Len(s) : s[i] \in {" ", "\n", "\t", "\r"}

\* pypdf gets no text: it cannot open the file, or every page raises or holds blanks
PrimaryYieldsNothing(file) ==
    \/ file.pdf.reader = "raise"
    \/ \A i \in 1..Len(file.pdf.pages) :
          file.pdf.pages[i].kind = "raise" \/ IsBlank(file.pdf.pages[i].s)

\* OCR is unavailable (not installed, or the conversion fails), or reads no text
OcrUnavailable(file) == ~dep.ocr_installed \/ file.ocr.convert = "raise"
OcrYieldsNothing(file) ==
    \A i \in 1..Len(file.ocr.images) :
        file.ocr.images[i].kind = "raise" \/ IsBlank(file.ocr.images[i].s)

\* C6: for a request past the file validation the handler never raises; its response
\* is TEXT_EXTRACTION_FAILED with status 422 exactly when pypdf gets no text and OCR
\* is unavailable or reads no text; the generation service is then never called, and
\* the response is the same envelope in the unavailable and in the no-text case.
C6_ExtractionFailedIffNoText ==
    PassedFileValidation
        => /\ pc # "crashed"
           /\ pc \in {"analyze", "done"} =>
                LET f == req.resumes[1]
                    noText == /\ PrimaryYieldsNothing(f)
                              /\ (OcrUnavailable(f) \/ OcrYieldsNothing(f))
                    failed == pc = "done" /\ ~response.success
                              /\ response.code = "TEXT_EXTRACTION_FAILED"
                IN /\ failed <=> noText
                   /\ failed => /\ response.status_code = 422
                                /\ response = [success |-> FALSE, code |-> "TEXT_EXTRACTION_FAILED",
                                               message |-> "Could not extract text from PDF",
                                               details |-> [reason |-> "PDF may be image-based or corrupted"],
                                               status_code |-> 422]
                                /\ Count(calls, "generate") = 0
                                /\ agent_inputs = <<>>

C6_Witness ==
    /\ pc = "done" /\ PassedFileValidation
    /\ OcrUnavailable(req.resumes[1])
    /\ req.resumes[1].pdf.reader = "ok"
    /\ response.code = "TEXT_EXTRACTION_FAILED"
    /\ calls = <<"read", "pypdf", "ocr">>

-----------------------------------------------------------------------------
(* Properties of parse_score_from_markdown (SpecScore)                     *)

\* the numbers written as percentages in s: each maximal run of digits that a "%" follows
PercentRuns(s) ==
    {r \in (1..Len(s)) \X (1..Len(s)) :
        /\ r[1] <= r[2]
        /\ \A k \in r[1]..r[2] : s[k] \in {"0","1","2","3","4","5","6","7","8","9"}
        /\ r[2] < Len(s) /\ s[r[2] + 1] = "%"
        /\ (r[1] = 1 \/ s[r[1] - 1] \notin {"0","1","2","3","4","5","6","7","8","9"})}

PercentValues(s) == {ToInt(SubSeq(s, r[1], r[2])) : r \in PercentRuns(s)}

IsText(md) == md # None /\ md # <<>>

\* C7: the score is none or an integer from 0 to 100, and a text all of whose
\* percentages are above 100 yields none.
C7_OutOfRangeRejected ==
    sc_pc \in {"parsed", "done"}
        => /\ (sc_score = <<>> \/ (Len(sc_score) = 1 /\ sc_score[1] \in 0..100))
           /\ (IsText(sc_md) /\ PercentValues(sc_md) # {}
               /\ \A v \in PercentValues(sc_md) : v > 100) => sc_score = <<>>

\* what the p-th pattern finds in the text after collapsing blanks: the integer of its
\* leftmost match when that is from 0 to 100, else <<>>
InRangeYield(p) ==
    LET m == SearchPattern(p, SplitJoin(sc_md))
    IN IF m # <<>> /\ ToInt(m) <= 100 THEN <<ToInt(m)>> ELSE <<>>

\* C8: the score is what the first of the patterns 'overall match score: N%',
\* 'match score: N%', 'N% ... match', in this order, finds in range, matching without
\* regard to case on the text with blanks collapsed; a higher pattern's out-of-range
\* match does not stop the lower ones; "## Overall Match Score: 87%" gives 87.
C8_PatternPriority ==
    (sc_pc \in {"parsed", "done"} /\ IsText(sc_md))
        => /\ sc_score = IF InRangeYield(1) # <<>> THEN InRangeYield(1)
                         ELSE IF InRangeYield(2) # <<>> THEN InRangeYield(2)
                         ELSE InRangeYield(3)
           /\ sc_md = <<"#","#"," ","O","v","e","r","a","l","l"," ","M","a","t","c","h"," ",
                        "S","c","o","r","e",":"," ","8","7","%">> => sc_score = <<87>>

\* the first pattern matches out of range and a lower pattern gives the score
C8_Witness ==
    /\ sc_pc = "parsed" /\ IsText(sc_md)
    /\ SearchPattern(1, SplitJoin(sc_md)) # <<>>
    /\ InRangeYield(1) = <<>>
    /\ sc_score # <<>>

C8_WitnessHigherWins ==
    /\ sc_pc = "parsed" /\ IsText(sc_md)
    /\ InRangeYield(1) # <<>> /\ InRangeYield(3) # <<>>
    /\ InRangeYield(1) # InRangeYield(3)
    /\ sc_score = InRangeYield(1)

-----------------------------------------------------------------------------
(* Properties of scrape_job_description (SpecScrape)                       *)

\* v begins with a tag: "<", one or more characters that are not ">", then ">"
BeginsWithTag(v) ==
    /\ v # None
    /\ Len(v) >= 3 /\ v[1] = "<" /\ v[2] # ">"
    /\ \E j \in 3..Len(v) : v[j] = ">"

\* C10: when the scraped value (the field the client returned, or the page fetched
\* directly) begins with a tag, the returned text holds no "<" and no ">".
C10_NoAngleBrackets ==
    (sj_pc = "done" /\ BeginsWithTag(sj_val) /\ sj_result # None)
        => \A i \in 1..Len(sj_result) : sj_result[i] \notin {"<", ">"}

\* the scraped value without its blanks at both ends and, where the code strips
\* markup, without its tags
NormalizedValue ==
    IF sj_env.api_key /\ sj_calls # <<>> /\ sj_calls[Len(sj_calls)] # "urlopen"
       /\ ~(Contains(sj_val, <<"<">>) /\ Contains(sj_val, <<"<", "/">>))
    THEN Strip(sj_val)
    ELSE _strip_html_tags(sj_val)

\* C11: a text returned by scrape_job_description, from the client or from the direct
\* fetch, has at most 15000 characters; it is the first 15000 characters of the
\* normalized value, and the whole of it when that has at most 15000 characters.
C11_AtMostMaxLen ==
    (sj_pc = "done" /\ sj_result # None)
        => /\ Len(sj_result) <= 15000
           /\ sj_val # None
                => /\ Len(NormalizedValue) <= 15000 => sj_result = NormalizedValue
                   /\ Len(NormalizedValue) > 15000
                         => sj_result = SubSeq(NormalizedValue, 1, 15000)

C11_Witness ==
    /\ sj_pc = "done" /\ sj_val # None /\ sj_result # None
    /\ Len(sj_val) > 15000
    /\ Len(NormalizedValue) = 15001
    /\ Len(sj_result) = 15000

C11_WitnessWhole ==
    /\ sj_pc = "done" /\ sj_val # None /\ sj_result # None
    /\ Len(sj_val) = 15002
    /\ Len(sj_result) = 15000
    /\ sj_result = NormalizedValue

-----------------------------------------------------------------------------
(* Properties of the pre-scrape and of the errors of both handlers         *)

IsChars(t) == \A i \in 1..Len(t) : t[i] \notin {"None", "Raised"}

\* C12: whatever fails in scrape_job_description (the import or the construction of
\* the client, either client call, the direct fetch), the call made by the batch
\* handler returns a text or none and raises nothing: the handler never stops there,
\* and returns one entry per file.
C12_ScrapeNeverRaises ==
    /\ pc # "crashed"
    /\ batch_scraped_jd # Raised
    /\ (batch_scraped_jd = None \/ IsChars(batch_scraped_jd))
    /\ (pc \in {"loop", "done"} /\ Count(calls, "scrape") > 0)
          => /\ idx >= 1
             /\ pc = "done" => /\ response.success
                               /\ Len(response.results) = Len(req.resumes)

C12_Witness ==
    /\ pc = "done" /\ idx >= 1
    /\ Count(calls, "scrape") = 1
    /\ batch_scraped_jd = None
    /\ Len(response.results) = 2
    /\ response.results[1].success
    /\ response.results[2].success

\* the scrape was called and an item reached the agent
ScrapedAndAnalyzed ==
    /\ pc \in {"loop", "done"} /\ Count(calls, "scrape") = 1 /\ agent_inputs # <<>>

\* what the agent is given when a scraped text of at least least characters counts
\* as the JD and anything else is dropped
JdRule(least) ==
    /\ (pc \in {"loop", "done"} /\ batch_scraped_jd # None /\ batch_scraped_jd # <<>>)
          => Len(batch_scraped_jd) >= least
    /\ ScrapedAndAnalyzed
          => IF batch_scraped_jd # None /\ batch_scraped_jd # <<>>
             THEN /\ agent_inputs[1].job_description_text = batch_scraped_jd
                  /\ agent_inputs[1].job_description_url = None
             ELSE /\ agent_inputs[1].job_description_text = req.job_description
                  /\ agent_inputs[1].job_description_url = req.job_link

\* C13 (as stated): a scraped JD is the JD context only if it has more than 50
\* characters; otherwise the agent gets the caller's job description and the job link.
C13_Original == JdRule(51)

\* C13 (amended): a scraped JD is the JD context only if it has at least 50
\* characters; a scraped text of fewer than 50 characters (or an empty one) is
\* dropped, and the agent then gets the caller's job description and the job link.
C13_ShortScrapeDiscarded == JdRule(50)

C13_Witness ==
    /\ ScrapedAndAnalyzed
    /\ batch_scraped_jd # None /\ Len(batch_scraped_jd) = 50
    /\ agent_inputs[1].job_description_text = batch_scraped_jd
    /\ agent_inputs[1].job_description_url = None

C13_WitnessDropped ==
    /\ ScrapedAndAnalyzed
    /\ batch_scraped_jd = None
    /\ req.job_description # None
    /\ agent_inputs[1].job_description_text = req.job_description
    /\ agent_inputs[1].job_description_url = req.job_link

-----------------------------------------------------------------------------
(* Properties of the two stages of scrape_job_description (SpecScrape)     *)

\* what the scraping client handed back, when there is a credential and a client
ClientReturned ==
    IF ~sj_env.api_key \/ sj_env.firecrawl # "ok" THEN [kind |-> "raise"]
    ELSE IF sj_env.scrape_url.kind # "raise" THEN sj_env.scrape_url
    ELSE sj_env.scrape

\* the client handed back a dict with a non-empty string under one of the five keys
HasPopulatedField ==
    /\ ClientReturned.kind = "dict"
    /\ \E k \in DOMAIN ClientReturned.items :
          /\ k \in {"markdown", "md", "content", "text", "html"}
          /\ ClientReturned.items[k].kind = "str"
          /\ ClientReturned.items[k].s # <<>>

\* C14: for a non-empty url the direct fetch is attempted exactly when the structured
\* fetch failed: no credential, an exception in the client, no populated field, or a
\* selected value that is empty after normalization; when the direct fetch was not
\* attempted, the structured fetch produced a non-empty text.
C14_DirectFetchIffStructuredFailed ==
    (sj_pc = "done" /\ sj_url # None /\ sj_url # <<>>)
        => /\ Count(sj_calls, "urlopen") <= 1
           /\ Count(sj_calls, "urlopen") = 0
                 => HasPopulatedField /\ sj_result # None /\ sj_result # <<>>
           /\ Count(sj_calls, "urlopen") = 1 => ~HasPopulatedField

-----------------------------------------------------------------------------
(* Properties of the error envelopes                                       *)

\* the handler returned an error envelope
ReturnedError == pc = "done" /\ ~response.success

\* the status the five classes give a code: 422 input shape, 413 size, 415 type,
\* 502 upstream service, 500 internal failure; 0 where the classes do not say
StatusOfCode(code) ==
    CASE code \in {"MISSING_FIELDS", "MISSING_JOB_INFO", "INVALID_JOB_LINK",
                   "TEXT_EXTRACTION_FAILED"} -> 422
      [] code \in {"TOO_MANY_FILES", "FILE_TOO_LARGE"} -> 413
      [] code = "INVALID_FILE_TYPE" -> 415
      [] code = "ANALYSIS_FAILED" -> 502
      [] code = "INTERNAL_ERROR" -> 500
      [] OTHER -> 0

\* C15: every error envelope carries a status among 422, 413, 415, 502 and 500, and
\* a code always comes with the same status, the one of its class.
C15_FixedStatusPerCode ==
    ReturnedError
        => /\ response.status_code \in {422, 413, 415, 502, 500}
           /\ StatusOfCode(response.code) # 0
                 => response.status_code = StatusOfCode(response.code)

-----------------------------------------------------------------------------
(* Properties of the request validation of both handlers                   *)

IsBlankOrAbsent(x) == x = None \/ IsBlank(x)
IsAbsent(x) == x = None \/ x = <<>>

\* the link is present and is not one of the valid links of the requests
LinkIsMalformed ==
    /\ req.job_link # None /\ req.job_link # <<>>
    /\ req.job_link # <<"h","t","t","p","s",":","/","/","x",".","i","o","/","j">>

\* the request has a shape error of the batch handler
BatchShapeError ==
    \/ IsAbsent(req.job_title)
    \/ Len(req.resumes) = 0
    \/ IsBlankOrAbsent(req.job_link) /\ IsBlankOrAbsent(req.job_description)
    \/ LinkIsMalformed
    \/ Len(req.resumes) > 10

ShapeCodes == {"MISSING_FIELDS", "MISSING_JOB_INFO", "INVALID_JOB_LINK", "TOO_MANY_FILES"}

NothingDone ==
    /\ calls = <<>> /\ results = <<>> /\ agent_inputs = <<>>
    /\ batch_scraped_jd = None /\ extracted_text = <<>>

C16_SingleShapeErrorsBeforeAnyWork ==
    /\ (IsAbsent(req.job_title) \/ Len(req.resumes) = 0 \/ LinkIsMalformed)
          => /\ pc \in {"start", "done"}
             /\ NothingDone
             /\ pc = "done" => ReturnedError /\ response.code \in ShapeCodes
    /\ (ReturnedError /\ response.code \in ShapeCodes) => NothingDone

C16_WitnessTen ==
    /\ pc = "done" /\ Len(req.resumes) = 10 /\ response.success

-----------------------------------------------------------------------------
(* Properties of the PDF check                                             *)

\* the file is not a PDF by its first four bytes or by its declared type
NotAPdf(file) == NoPdfSignature(file) \/ file.content_type # "application/pdf"

C17_BatchNonPdfAlwaysRejected ==
    /\ pc # "crashed"
    /\ \A i \in 1..Len(results) : NotAPdf(req.resumes[i]) => ~results[i].success
    /\ (\A i \in 1..Len(req.resumes) : NotAPdf(req.resumes[i]))
          => ~ExtractionRan /\ Count(calls, "generate") = 0

-----------------------------------------------------------------------------
(* Properties of the rejections                                            *)

ValidationCodes ==
    {"MISSING_FIELDS", "INVALID_JOB_LINK", "TOO_MANY_FILES", "FILE_TOO_LARGE",
     "INVALID_FILE_TYPE", "CORRUPTED_PDF"}

\* item i was read and then rejected by the size check or by the PDF check
ItemRejected(i) ==
    /\ req.resumes[i].readable
    /\ (req.resumes[i].size > 2097152 \/ NotAPdf(req.resumes[i]))

\* C18: a rejection by the validation is never an exception; the rejection of the
\* request is an error envelope with one of the six validation codes and a message,
\* and the rejection of one item of a batch is a failed entry with one of these
\* codes and a message.
C18_RejectionsAreTypedFailures ==
    /\ pc # "crashed"
    /\ (ReturnedError /\ calls = <<>>)
          => response.code \in ValidationCodes /\ response.message # ""
    /\ \A i \in 1..Len(results) :
          ItemRejected(i)
             => /\ ~results[i].success
                /\ "error" \in DOMAIN results[i]
                /\ "code" \in DOMAIN results[i]
                /\ results[i].code \in ValidationCodes

\* the part of C18 about one item of a batch, on its own
C18_ItemRejectionsCarryCode ==
    \A i \in 1..Len(results) :
        ItemRejected(i) => "code" \in DOMAIN results[i]

-----------------------------------------------------------------------------
(* Properties of a failed generation                                       *)

\* the agents package does not import, or building the agent or agent.run raises
GenerationFailure(file) == dep.agent_import = "raise" \/ file.gen.kind = "raise"

\* the batch loop gets as far as the agent for this file: it is read, within the 2MB
\* ceiling, a PDF, and some text is extracted from it
ReachesGeneration(file) ==
    /\ file.readable /\ file.size <= 2097152 /\ ~NotAPdf(file)
    /\ ~(PrimaryYieldsNothing(file) /\ (OcrUnavailable(file) \/ OcrYieldsNothing(file)))

\* analyze_resume returned after text was extracted
SingleAnalyzed == pc = "done" /\ results = <<>> /\ TruthyStr(extracted_text)

C19_WitnessImport ==
    /\ SingleAnalyzed
    /\ dep.agent_import = "raise"
    /\ response.code = "ANALYSIS_FAILED"

\* batch mode: the first item's generation fails and the second item succeeds
C19_WitnessBatch ==
    /\ pc = "done" /\ Len(results) = 2
    /\ req.resumes[1].gen.kind = "raise"
    /\ results[1].error = <<"Analysis failed: ", "quota exceeded">>
    /\ results[2].success

-----------------------------------------------------------------------------
(* Properties of the batch prompt                                          *)

\* the batch handler called the agent; agent_inputs holds its inputs and its prompt
AgentCalled == pc \in {"loop", "done"} /\ Len(agent_inputs) = 2

PromptHas(piece) == \E i \in DOMAIN agent_inputs[2] : agent_inputs[2][i] = piece
NotesHave(piece) ==
    /\ agent_inputs[1].custom_instructions # None
    /\ \E i \in DOMAIN agent_inputs[1].custom_instructions :
          agent_inputs[1].custom_instructions[i] = piece

\* the provided job description is absent or shorter than 200 characters once stripped
WeakJd == ~TruthyStr(req.job_description) \/ Len(Strip(req.job_description)) < 200

\* with a scraped JD accepted: the inputs carry the scraped text, no URL and the
\* pre-scraped note, and the prompt carries the note, no URL and no instruction to
\* scrape the JD URL
ScrapedJdPassedOn ==
    /\ agent_inputs[1].job_description_text = batch_scraped_jd
    /\ agent_inputs[1].job_description_url = None
    /\ NotesHave(PreScrapedNote)
    /\ PromptHas(PreScrapedNote)
    /\ ~PromptHas("Job Description URL:\n")
    /\ ~PromptHas(ScrapeNote)

\* C20 as stated: a scraped JD that was accepted is passed on without the URL and
\* without an instruction to scrape, and whenever no scraped JD was accepted and the
\* request has a job link, the link is passed and the prompt tells the service to
\* scrape it.
C20_Original ==
    AgentCalled =>
        /\ TruthyStr(batch_scraped_jd) => ScrapedJdPassedOn
        /\ (~TruthyStr(batch_scraped_jd) /\ TruthyStr(req.job_link))
              => /\ agent_inputs[1].job_description_url = req.job_link
                 /\ PromptHas(ScrapeNote)
        /\ PromptHas(ScrapeNote) <=> (~TruthyStr(batch_scraped_jd) /\ TruthyStr(req.job_link))

\* C20: a scraped JD that was accepted is passed on without the URL and without an
\* instruction to scrape the JD URL; when no scraped JD was accepted and the request
\* has a job link, the link is passed and is in the prompt, and the prompt tells the
\* service to scrape it exactly when the provided job description is absent or
\* shorter than 200 characters; without a job link there is no such instruction.
C20_ScrapeInstructionIffNoJdContext ==
    AgentCalled =>
        /\ TruthyStr(batch_scraped_jd) => ScrapedJdPassedOn
        /\ (~TruthyStr(batch_scraped_jd) /\ TruthyStr(req.job_link))
              => /\ agent_inputs[1].job_description_url = req.job_link
                 /\ agent_inputs[1].job_description_text = req.job_description
                 /\ PromptHas("Job Description URL:\n")
                 /\ ~NotesHave(PreScrapedNote)
        /\ PromptHas(ScrapeNote)
              <=> (~TruthyStr(batch_scraped_jd) /\ TruthyStr(req.job_link) /\ WeakJd)

\* a scraped JD was accepted and the agent was called with it
C20_Witness ==
    /\ AgentCalled
    /\ TruthyStr(batch_scraped_jd)
    /\ TruthyStr(req.job_link)
    /\ PromptHas(PreScrapedNote)
    /\ ~PromptHas(ScrapeNote)

\* the scrape brought nothing and the prompt tells the service to scrape the link
C20_WitnessInstructed ==
    /\ AgentCalled
    /\ Count(calls, "scrape") = 1
    /\ ~TruthyStr(batch_scraped_jd)
    /\ PromptHas(ScrapeNote)

\* a link and a job description of 200 characters: the link is passed and the prompt
\* does not tell the service to scrape it
C20_WitnessLongJd ==
    /\ AgentCalled
    /\ TruthyStr(req.job_link) /\ ~WeakJd
    /\ agent_inputs[1].job_description_url = req.job_link
    /\ ~PromptHas(ScrapeNote)

-----------------------------------------------------------------------------
(* Properties of the order of the batch prompt                             *)

HrFocusHeading == "HR Focus/Questions (PRIORITY "

\* the place of the first occurrence of a piece in the prompt, 0 when it has none
PlaceOf(piece) ==
    IF PromptHas(piece)
    THEN SetMin({i \in DOMAIN agent_inputs[2] : agent_inputs[2][i] = piece})
    ELSE 0

\* the literals that open the sections which follow the notes, in the order of the code
LaterSections ==
    <<"Priority directive:\n", "Job Title: ", "Job Description (Provided):\n",
      "Job Description URL:\n", "Candidate Resume (Extracted Text):\n",
      "Output strictly as Markdown using specified headings and constraints for quick HR screening.",
      "Reference Links (you may scrape):\n">>

\* the sections that are present stand in the fixed order
SectionsInOrder ==
    \A i, j \in DOMAIN LaterSections :
        (i < j /\ PromptHas(LaterSections[i]) /\ PromptHas(LaterSections[j]))
            => PlaceOf(LaterSections[i]) < PlaceOf(LaterSections[j])

HrFocusGiven == TruthyStr(req.hr_focus) /\ Strip(req.hr_focus) # <<>>

\* C21: the prompt of a batch item is the function craft_prompt of its inputs, its
\* sections stand in a fixed order, and the HR-focus directives, when the request
\* has some, stand before every other section: before the pre-scrape note, the job
\* title, the JD context, the resume text and the task directive.
C21_HrFocusRenderedFirst ==
    AgentCalled =>
        /\ agent_inputs[2] = craft_prompt(agent_inputs[1])
        /\ SectionsInOrder
        /\ HrFocusGiven <=> PromptHas(HrFocusHeading)
        /\ HrFocusGiven =>
              /\ \A k \in DOMAIN LaterSections :
                    PromptHas(LaterSections[k])
                        => PlaceOf(HrFocusHeading) < PlaceOf(LaterSections[k])
              /\ PromptHas(PreScrapedNote) => PlaceOf(HrFocusHeading) < PlaceOf(PreScrapedNote)

\* the part of C21 that the code keeps: the order of the sections, and the HR focus
\* before every section but the pre-scrape notes
C21_HrFocusBeforeLaterSections ==
    AgentCalled =>
        /\ agent_inputs[2] = craft_prompt(agent_inputs[1])
        /\ SectionsInOrder
        /\ HrFocusGiven <=> PromptHas(HrFocusHeading)
        /\ HrFocusGiven =>
              /\ \A k \in DOMAIN LaterSections :
                    PromptHas(LaterSections[k])
                        => PlaceOf(HrFocusHeading) < PlaceOf(LaterSections[k])
              /\ PromptHas(PreScrapedNote) => PlaceOf(PreScrapedNote) < PlaceOf(HrFocusHeading)

\* a scraped JD was accepted and the request has an HR focus
C21_Witness ==
    /\ AgentCalled
    /\ HrFocusGiven
    /\ TruthyStr(batch_scraped_jd)
    /\ PromptHas(HrFocusHeading) /\ PromptHas(PreScrapedNote)

-----------------------------------------------------------------------------
(* Properties of the HR questions                                          *)

\* the strings of a JSON list, element by element
AsStrings(items) ==
    [i \in 1..Len(items) |->
        IF items[i].kind = "str" THEN items[i].s
        ELSE IF items[i].kind = "null" THEN <<"N","o","n","e">>
        ELSE <<"T","r","u","e">>]

\* C22: the agent gets at most 5 HR questions; from a JSON list it gets the first 5
\* elements, as strings and in the submitted order; from a value that is no valid
\* JSON or no list it gets none; and the value of the field never makes the request
\* fail: the handler does not raise, and an error envelope is a shape error.
C22_AtMostFiveQuestions ==
    /\ pc # "crashed"
    /\ (pc = "done" /\ ~response.success) => BatchShapeError
    /\ AgentCalled =>
          LET raw == req.hr_questions_raw
              given == agent_inputs[1].hr_questions
          IN IF raw.kind = "list"
             THEN /\ Len(given) = 1
                  /\ Len(given[1]) <= 5
                  /\ Len(given[1]) = (IF Len(raw.items) < 5 THEN Len(raw.items) ELSE 5)
                  /\ \A i \in 1..Len(given[1]) : given[1][i] = AsStrings(raw.items)[i]
             ELSE given = <<>>

\* seven questions were submitted and the agent was given the first five
C22_Witness ==
    /\ AgentCalled
    /\ req.hr_questions_raw.kind = "list"
    /\ Len(req.hr_questions_raw.items) = 7
    /\ Len(agent_inputs[1].hr_questions[1]) = 5
    /\ agent_inputs[1].hr_questions[1][5] = <<"5">>

\* the field holds no valid JSON and the batch is answered all the same
C22_WitnessInvalid ==
    /\ pc = "done"
    /\ req.hr_questions_raw.kind = "invalid"
    /\ response.success
    /\ agent_inputs # <<>> /\ agent_inputs[1].hr_questions = <<>>

-----------------------------------------------------------------------------
(* Properties of the JD context of a batch                                 *)

\* the JD text, the JD URL and the custom note of a call of the agent
JdContextOf(inputs) ==
    <<inputs.job_description_text, inputs.job_description_url, inputs.custom_instructions>>

\* C23: the JD context of a batch is computed once, before the first item, and is
\* not modified afterwards: the loop leaves the scraped JD and the request as they
\* are, and a call of the agent is given the JD text, the JD URL and the custom note
\* that the call before it in the same request was given.
C23_JdContextSharedUnchanged ==
    [][ /\ pc = "loop" => (batch_scraped_jd' = batch_scraped_jd /\ req' = req)
        /\ pc # "prescrape" => batch_scraped_jd' = batch_scraped_jd
        /\ (Len(agent_inputs) = 2 /\ Len(agent_inputs') = 2)
              => JdContextOf(agent_inputs'[1]) = JdContextOf(agent_inputs[1]) ]_vars

\* two items of one request reached the agent, the first one failing there, and the
\* scraped JD is still the one the second was given
C23_Witness ==
    /\ pc = "done" /\ Len(results) = 2
    /\ Count(calls, "generate") = 2
    /\ ~results[1].success /\ results[2].success
    /\ TruthyStr(batch_scraped_jd)
    /\ agent_inputs[1].job_description_text = batch_scraped_jd

-----------------------------------------------------------------------------
(* Properties of the time a batch takes (SpecUpstream)                     *)

\* C24: every network-bound operation of a batch request (the structured JD fetch,
\* the direct JD fetch, each generation call) is bounded by a timeout, so the
\* handler is never left waiting without limit for an upstream service that does
\* not answer.
C24_EveryUpstreamCallBounded == pc # "waiting"

\* the handler waits for the generation service, one entry already in its results
C24_WitnessWaiting ==
    /\ pc = "waiting" /\ idx = 2 /\ Len(req.resumes) = 2
    /\ dep.stalls = "generate"
    /\ Len(results) = 1

\* the direct fetch, the one call with a timeout, fails and the batch goes on
C24_WitnessBounded ==
    /\ pc = "done" /\ dep.stalls = "none"
    /\ Count(calls, "scrape") = 1 /\ batch_scraped_jd = None
    /\ response.success

-----------------------------------------------------------------------------
(* Properties of the choice of the field (SpecScrape)                      *)

PreferenceOrder == <<"markdown", "md", "content", "text", "html">>

\* the field under this key is populated: a non-empty string
Populated(key) ==
    /\ ClientReturned.kind = "dict"
    /\ key \in DOMAIN ClientReturned.items
    /\ ClientReturned.items[key].kind = "str"
    /\ ClientReturned.items[key].s # <<>>

\* C25: when the structured fetch hands back a key-value response with a populated
\* field, the value used is the one under the first populated key in the order
\* markdown, md, content, text, html: every key before it is unpopulated, no later
\* field is used in its place, and the direct fetch is not attempted.
C25_FirstPopulatedFieldWins ==
    (sj_pc = "done" /\ sj_url # None /\ sj_url # <<>>)
        => \A k \in DOMAIN PreferenceOrder :
              (Populated(PreferenceOrder[k]) /\ \A j \in 1..(k - 1) : ~Populated(PreferenceOrder[j]))
                  => /\ sj_val = ClientReturned.items[PreferenceOrder[k]].s
                     /\ Count(sj_calls, "urlopen") = 0

\* html and markdown are both populated and the markdown was used
C25_Witness ==
    /\ sj_pc = "done"
    /\ Populated("markdown") /\ Populated("html")
    /\ sj_val = <<"H","i">>
    /\ sj_result = <<"H","i">>

\* text and html are populated, content is empty, and the text was used
C25_WitnessSkipsEmpty ==
    /\ sj_pc = "done"
    /\ Populated("text") /\ Populated("html")
    /\ "content" \in DOMAIN ClientReturned.items
    /\ sj_val = <<"H","o">>

-----------------------------------------------------------------------------
(* Properties of the size ceilings                                         *)

\* analyze_resume returned after it read, or tried to read, the upload
SingleReadDone == pc = "done" /\ idx = 0 /\ calls # <<>> /\ Len(req.resumes) = 1

SizeError == <<"File size exceeds 2MB limit">>

C26_WitnessSingleFull ==
    /\ SingleReadDone
    /\ req.resumes[1].size = 10485760
    /\ response.success

\* single-item mode: a GIF over 10MB is answered with FILE_TOO_LARGE
C26_WitnessSingleGif ==
    /\ SingleReadDone
    /\ req.resumes[1].size > 10485760 /\ req.resumes[1].content_type = "image/gif"
    /\ response.code = "FILE_TOO_LARGE"

-----------------------------------------------------------------------------
(* Properties of the pages of a document (SpecSingle)                      *)

\* the texts of the pages that did not fail, in page order
TextsOf(pages) ==
    LET good == SelectSeq(pages, LAMBDA pg : pg.kind # "raise")
    IN [i \in 1..Len(good) |-> good[i].s]

\* what pypdf is to give: the non-empty page texts, joined by newlines, trimmed
PrimaryText(file) ==
    IF file.pdf.reader = "raise" THEN <<>>
    ELSE Strip(JoinLines(SelectSeq(TextsOf(file.pdf.pages), LAMBDA t : t # <<>>)))

\* what OCR is to give: the trimmed non-blank page texts, joined by newlines
OcrText(file) ==
    JoinLines(SelectSeq([i \in 1..Len(TextsOf(file.ocr.images)) |-> Strip(TextsOf(file.ocr.images)[i])],
                        LAMBDA t : t # <<>>))

\* C27: in both stages a page that fails contributes no text and does not end the
\* extraction: the text extracted is the text of the pages that did not fail and are
\* not empty, in page order, joined by newlines and trimmed; the text of pypdf when
\* it has some, else the text of OCR where OCR is available.
C27_PageFailureNotFatal ==
    (PassedFileValidation /\ pc \in {"analyze", "done"})
        => /\ pc # "crashed"
           /\ LET f == req.resumes[1]
              IN IF PrimaryText(f) # <<>>
                 THEN extracted_text = PrimaryText(f) /\ Count(calls, "ocr") = 0
                 ELSE IF ~OcrUnavailable(f) /\ OcrText(f) # <<>>
                 THEN extracted_text = OcrText(f)
                 ELSE ~TruthyStr(extracted_text)

\* pypdf: the second of four pages raised and the text of the fourth is in the result
C27_Witness ==
    /\ PassedFileValidation /\ pc = "done"
    /\ Len(req.resumes[1].pdf.pages) = 4
    /\ req.resumes[1].pdf.pages[2].kind = "raise"
    /\ extracted_text = <<"A"," ","\n"," ","\n","B">>

\* OCR: the second of four images raised and the text of the fourth is in the result
C27_WitnessOcr ==
    /\ PassedFileValidation /\ pc = "done"
    /\ Len(req.resumes[1].ocr.images) = 4
    /\ req.resumes[1].ocr.images[2].kind = "raise"
    /\ Count(calls, "ocr") = 1
    /\ extracted_text = <<"A","\n","B">>

-----------------------------------------------------------------------------
(* Properties of the number of scrapes                                     *)

\* C28: the batch handler calls scrape_job_description at most once over a request,
\* and not at all when the request has no job link, when its job description has at
\* least 200 characters once stripped, or when it is rejected before the loop.
C28_ScrapeZeroOrOnce ==
    /\ Count(calls, "scrape") \in {0, 1}
    /\ IsAbsent(req.job_link) => Count(calls, "scrape") = 0
    /\ ~WeakJd => Count(calls, "scrape") = 0
    /\ (pc = "done" /\ ~response.success) => Count(calls, "scrape") = 0

\* a link and a job description of 200 characters: the batch is done without a scrape
C28_Witness ==
    /\ pc = "done" /\ response.success
    /\ TruthyStr(req.job_link) /\ ~WeakJd
    /\ Len(results) >= 2
    /\ Count(calls, "scrape") = 0
    /\ Count(calls, "generate") >= 1

\* a link and no job description: one scrape for two items
C28_WitnessOnce ==
    /\ pc = "done" /\ response.success
    /\ TruthyStr(req.job_link) /\ req.job_description = None
    /\ Len(results) = 2
    /\ Count(calls, "scrape") = 1

-----------------------------------------------------------------------------
(* Properties of the fallback report                                       *)

\* the generation service answered with no content, or with blanks only
BlankGeneration(file) ==
    /\ file.gen.kind = "ok"
    /\ (file.gen.content = None \/ IsBlank(file.gen.content))

FallbackReport ==
    REPORT_TEMPLATE(<<"0">>, FALLBACK_ITEM, FALLBACK_ITEM, FALLBACK_ITEM, FALLBACK_ITEM)

\* C29: an item whose generation returns empty or blank content gets the entry
\* success = TRUE with the fallback report and the score 0, and no successful entry
\* has an empty or blank report.
C29_FallbackReportForBlankContent ==
    \A i \in 1..Len(results) :
        /\ results[i].success
              => /\ results[i].report # <<>>
                 /\ ~IsBlank(results[i].report)
        /\ (ReachesGeneration(req.resumes[i]) /\ dep.agent_import = "ok"
                /\ BlankGeneration(req.resumes[i]))
              => /\ results[i].success
                 /\ results[i].report = FallbackReport
                 /\ results[i].score = <<0>>
                 /\ Contains(results[i].report, FALLBACK_ITEM)

\* blank content, then no content: two successful entries with the fallback report
C29_Witness ==
    /\ pc = "done" /\ Len(results) = 2
    /\ results[1].success /\ results[2].success
    /\ BlankGeneration(req.resumes[1]) /\ BlankGeneration(req.resumes[2])
    /\ req.resumes[1].gen.content = <<" ", "\n">>
    /\ req.resumes[2].gen.content = None
    /\ results[1].score = <<0>> /\ results[2].score = <<0>>
    /\ results[1].report = results[2].report
    /\ Len(results[1].report) > 100

-----------------------------------------------------------------------------
(* Properties of the shape of the entries                                  *)

\* C30: every entry of the results list has one of two shapes: name, success = TRUE,
\* a report and a score that is an integer in 0..100 or none, and no error; or name,
\* success = FALSE and an error message, and neither score nor report. One entry is
\* appended per item: the list holds as many entries as items were handled.
C30_EntryHasOneOfTwoShapes ==
    /\ \A i \in 1..Len(results) :
          IF results[i].success
          THEN /\ DOMAIN results[i] = {"name", "success", "score", "report"}
               /\ results[i].score \in {<<>>} \cup {<<n>> : n \in 0..100}
               /\ results[i].report # <<>>
          ELSE /\ DOMAIN results[i] = {"name", "success", "error"}
               /\ results[i].error # <<>>
               /\ results[i].error[1] # ""
    /\ pc = "loop" => Len(results) = idx - 1
    /\ (pc = "done" /\ response.success)
          => /\ Len(results) = Len(req.resumes)
             /\ response.results = results

\* a successful entry without a score, then a failed entry
C30_Witness ==
    /\ pc = "done" /\ Len(results) = 2
    /\ results[1].success /\ results[1].score = <<>>
    /\ ~results[2].success
    /\ results[2].error = <<"Only PDF files are allowed">>

====
